---- MODULE Spec2Model ----
(***************************************************************************)
(* A model of the inspection pipeline of rust-mcp: view gating, the        *)
(* per-workspace lock, the language-server exchange of an inspection and   *)
(* the one-shot compiler run, as RustMcpServer serves concurrent tool      *)
(* calls.                                                                  *)
(***************************************************************************)
EXTENDS Integers, Sequences, FiniteSets, TLC

VARIABLES
    channel,        \* InspectionContext.toolchain_channel (detected once)
    defaultGating,  \* InspectionContext.gating_mode seeded from MCP_GATING_MODE
    initialized,    \* RustAnalyzerClient.initialized
    lspClosed,      \* the language server has closed its output stream
    pc,             \* per tool call: the await point the call is suspended at
    ctx,            \* per tool call: the tool, the view asked for and found, the gating mode
    prov,           \* per tool call: the InspectionProvenance under construction
    res,            \* per tool call: the value the call returned
    wsLock,         \* holder of the workspace AsyncMutex (0: free)
    anaLock,        \* holder of the Mutex<RustAnalyzerClient> (0: free)
    rd,             \* per tool call: locals of send_request_internal / read_response
    child,          \* per tool call: the compiler child of CompilerRunner::run
    run,            \* per tool call: locals of CompilerRunner::run
    did,            \* per tool call: what the call has touched so far (history)
    q1, q2,         \* two gating queries and their answers (GatingSpec)
    ex,             \* an extractor call: its arguments and its result (ExtractSpec)
    tr,             \* a truncate_with_limits call and its result (TruncateSpec)
    fs,             \* the artifact directory and the scans of one run (ArtifactSpec)
    cm,             \* a RunRequest and the command built from it (CommandSpec)
    lc,             \* a RustAnalyzerClient, its server and the bytes between them (ClientSpec)
    ds,             \* a documentSymbol response, a position and the path found (SymbolSpec)
    pp              \* a compiler child, its two pipes and the runner (PipeSpec)

serverVars == <<channel, defaultGating, initialized, lspClosed, pc, ctx, prov, res,
                wsLock, anaLock, rd, child, run, did>>
gateVars == <<q1, q2>>
moreVars == <<cm, lc, ds, pp>>
sideVars == <<gateVars, ex, tr, fs, moreVars>>
vars == <<serverVars, sideVars>>

----------------------------------------------------------------------------
(* Bounds *)

NumCalls == 2
Procs == 1..NumCalls

----------------------------------------------------------------------------
(* inspection.rs: channels, gating modes, curated views *)

Channels == {"Stable", "Nightly", "Dev"}
GatingModes == {"Strict", "Lenient"}

DEFAULT_TIMEOUT_SECONDS == 60

\* The strings a caller may pass; upper-case spellings exercise the
\* case-insensitive comparisons of the source.
ViewNameInputs == {"def", "types", "llvm-ir", "asm", "mir", "MIR", "hir"}
GatingInputs == {"none", "strict", "lenient", "LENIENT", "bogus"}

to_ascii_lowercase(s) ==
    CASE s = "MIR" -> "mir"
      [] s = "LENIENT" -> "lenient"
      [] OTHER -> s

eq_ignore_ascii_case(a, b) == to_ascii_lowercase(a) = to_ascii_lowercase(b)

curated ==
    << [name |-> "def",     requires_nightly |-> FALSE, emit |-> "none",    unpretty |-> "none"],
       [name |-> "types",   requires_nightly |-> FALSE, emit |-> "none",    unpretty |-> "none"],
       [name |-> "llvm-ir", requires_nightly |-> FALSE, emit |-> "llvm-ir", unpretty |-> "none"],
       [name |-> "asm",     requires_nightly |-> FALSE, emit |-> "asm",     unpretty |-> "none"],
       [name |-> "mir",     requires_nightly |-> TRUE,  emit |-> "none",    unpretty |-> "mir"] >>

NoView == [name |-> "", requires_nightly |-> FALSE, emit |-> "none", unpretty |-> "none"]

\* Option<T>
None == [some |-> FALSE, v |-> <<>>]
Some(v) == [some |-> TRUE, v |-> v]

find_or_def(name) ==
    LET hits == {i \in 1..Len(curated) : eq_ignore_ascii_case(curated[i].name, name)}
    IN IF hits = {} THEN curated[1]
       ELSE curated[CHOOSE i \in hits : \A j \in hits : i <= j]

\* InspectionView::find: the first curated view whose name matches, or NoView.
find(name) ==
    LET hits == {i \in 1..Len(curated) : eq_ignore_ascii_case(curated[i].name, name)}
    IN IF hits = {} THEN NoView
       ELSE curated[CHOOSE i \in hits : \A j \in hits : i <= j]

is_nightly_like(c) == c \in {"Nightly", "Dev"}

is_view_advertised_swapped(view, c, gating_mode) ==
    IF view.requires_nightly /\ ~is_nightly_like(c) /\ gating_mode = "Lenient"
    THEN FALSE
    ELSE TRUE

is_view_advertised_strict_lenient(view, c, gating_mode) ==
    ~(view.requires_nightly /\ ~is_nightly_like(c))

is_view_advertised(view, c, gating_mode) ==
    IF view.requires_nightly /\ ~is_nightly_like(c) /\ gating_mode = "Strict"
    THEN FALSE
    ELSE TRUE

is_view_runnable_lenient(view, c) == TRUE

is_view_runnable(view, c) == ~(view.requires_nightly /\ ~is_nightly_like(c))

\* GatingMode::from_str: "err" stands for Err(()).
GatingMode_from_str(s) ==
    CASE to_ascii_lowercase(s) = "lenient" -> "Lenient"
      [] to_ascii_lowercase(s) = "strict" -> "Strict"
      [] OTHER -> "err"

\* RustMcpServer::inspection_context: the effective gating mode of a call.
inspection_context(gating_override) ==
    IF gating_override # "none" /\ GatingMode_from_str(gating_override) # "err"
    THEN GatingMode_from_str(gating_override)
    ELSE defaultGating

\* InspectionContext::provenance: the fields a request changes afterwards
\* (the others are copies of the context).
provenance(gating_mode) ==
    [gating_mode |-> gating_mode, toolchain_channel |-> channel,
     workspace_locked |-> FALSE, command |-> None, truncation |-> "none"]

limits == [timeout_seconds |-> DEFAULT_TIMEOUT_SECONDS]

----------------------------------------------------------------------------
(* Values of the per-call variables *)

NoCtx == [tool |-> "none", name |-> "", view |-> NoView, gating |-> "Strict",
          symbol_name |-> None, resolved |-> "unresolved"]
NoProv == provenance("Strict")
NoRes == [kind |-> "none"]
NoRd == [call |-> "none", content_length |-> FALSE, line |-> "none"]
NoChild == [st |-> "none", status |-> "none", stdout_task |-> "none", stderr_task |-> "none",
            written |-> [stdout |-> "", stderr |-> ""]]
NoRun == [status |-> "none", result |-> "none", stdout |-> "", stderr |-> "", command |-> <<>>]

\* mcp_error(code, message, data): the message is kept as a short reason.
mcp_error(code, reason, data) ==
    [kind |-> "err", code |-> code, reason |-> reason, data |-> data]

NoData == [timeout_seconds |-> 0, run_result |-> "none"]

\* Dropping a guard (WorkspaceLockGuard::drop, MutexGuard::drop): the mutex is
\* free again if this call held it.
drop_guard_leak(holder, p) == holder

drop_guard(holder, p) == IF holder = p THEN 0 ELSE holder

\* A value a call returns is taken by its caller before anything else happens
\* (Return below only clears the locals of that call, so this order loses no
\* behaviour of what the calls share).
Quiet == \A q \in Procs : pc[q] # "ret"

\* The call p is suspended at await point l, and may go on.
At(p, l) == pc[p] = l /\ Quiet

\* A call that returns: every guard it holds is dropped on the way out.
Returns(p, value) ==
    /\ pc' = [pc EXCEPT ![p] = "ret"]
    /\ res' = [res EXCEPT ![p] = value]
    /\ wsLock' = drop_guard(wsLock, p)
    /\ anaLock' = drop_guard(anaLock, p)

----------------------------------------------------------------------------
(* handler.rs: the capabilities tool *)

AdvertisedViews(gating_mode) ==
    SelectSeq(curated, LAMBDA view : is_view_advertised(view, channel, gating_mode))

RequiresNightlyNote(name) == "View '" \o name \o "' requires nightly"

RECURSIVE MapNames(_)
MapNames(views) ==
    IF views = <<>> THEN <<>> ELSE <<Head(views).name>> \o MapNames(Tail(views))

RECURSIVE MapNotes(_)
MapNotes(views) ==
    IF views = <<>> THEN <<>>
    ELSE <<RequiresNightlyNote(Head(views).name)>> \o MapNotes(Tail(views))

capabilities_always_notes(gating_mode) ==
    [kind |-> "caps",
     toolchain_channel |-> channel,
     gating_mode |-> gating_mode,
     views |-> MapNames(AdvertisedViews(gating_mode)),
     diagnostics |-> MapNotes(SelectSeq(curated, LAMBDA view : view.requires_nightly)),
     provenance |-> provenance(gating_mode)]

capabilities(gating_mode) ==
    [kind |-> "caps",
     toolchain_channel |-> channel,
     gating_mode |-> gating_mode,
     views |-> MapNames(AdvertisedViews(gating_mode)),
     diagnostics |->
        IF gating_mode = "Lenient" /\ ~is_nightly_like(channel)
        THEN MapNotes(SelectSeq(curated, LAMBDA view : view.requires_nightly))
        ELSE <<>>,
     provenance |-> provenance(gating_mode)]

Capabilities(p, g) ==
    /\ At(p, "idle")
    /\ ctx' = [ctx EXCEPT ![p] = [tool |-> "capabilities", name |-> "", view |-> NoView,
                                  gating |-> inspection_context(g),
                                  symbol_name |-> None, resolved |-> "unresolved"]]
    /\ did' = [did EXCEPT ![p] = {}]
    /\ Returns(p, capabilities(inspection_context(g)))
    /\ UNCHANGED <<sideVars, channel, defaultGating, initialized, lspClosed, prov, rd, child,
                   run>>

----------------------------------------------------------------------------
(* handler.rs: perform_inspection, up to the workspace lock *)

\* The tools that reach perform_inspection and the view name each passes.
InspectTools == {"inspect", "inspect_mir", "inspect_llvm_ir", "inspect_asm"}

ToolViewNames(tool) ==
    CASE tool = "inspect" -> ViewNameInputs
      [] tool = "inspect_mir" -> {"mir"}
      [] tool = "inspect_llvm_ir" -> {"llvm-ir"}
      [] tool = "inspect_asm" -> {"asm"}

\* Only inspect takes a gating_mode parameter.
ToolGatingInputs(tool) == IF tool = "inspect" THEN GatingInputs ELSE {"none"}

\* The diagnostic of the soft-fail result (the source quotes the name in
\* backquotes, which a string of this module cannot hold).
RequiresNightlyToolchain(name) ==
    "View " \o name \o " requires a nightly toolchain (detected " \o channel \o ")"

soft_fail_result_silent(view, gating_mode) ==
    [kind |-> "ok", view |-> view.name, symbol |-> "none", text |-> "",
     truncated |-> FALSE,
     diagnostics |-> <<>>,
     provenance |-> provenance(gating_mode)]

soft_fail_result(view, gating_mode) ==
    [kind |-> "ok", view |-> view.name, symbol |-> "none", text |-> "",
     truncated |-> FALSE,
     diagnostics |-> <<RequiresNightlyToolchain(view.name)>>,
     provenance |-> provenance(gating_mode)]

\* Lines 987-1025: no await point before lock_workspace().await.
BeginInspect(p, tool, view_name, g, symbol_name) ==
    LET view == find(view_name)
        gating_mode == inspection_context(g)
    IN /\ At(p, "idle")
       /\ ctx' = [ctx EXCEPT ![p] = [tool |-> tool, name |-> view_name, view |-> view,
                                     gating |-> gating_mode, symbol_name |-> symbol_name,
                                     resolved |-> "unresolved"]]
       /\ did' = [did EXCEPT ![p] = {}]
       /\ IF view = NoView
          THEN /\ Returns(p, mcp_error("INVALID_PARAMS", "unknown_view", NoData))
               /\ UNCHANGED prov
          ELSE IF ~is_view_advertised(view, channel, gating_mode)
          THEN /\ Returns(p, mcp_error("INVALID_PARAMS", "not_available", NoData))
               /\ UNCHANGED prov
          ELSE IF ~is_view_runnable(view, channel)
          THEN /\ Returns(p, soft_fail_result(view, gating_mode))
               /\ UNCHANGED prov
          ELSE /\ pc' = [pc EXCEPT ![p] = "lock_ws"]
               /\ prov' = [prov EXCEPT ![p] = provenance(gating_mode)]
               /\ UNCHANGED <<res, wsLock, anaLock>>
       /\ UNCHANGED <<sideVars, channel, defaultGating, initialized, lspClosed, rd, child, run>>

----------------------------------------------------------------------------
(* inspection.rs: the workspace lock; handler.rs: symbol resolution *)

\* tokio's Mutex::lock / lock_owned completes only while no guard is alive.
lock_ready_always(holder) == TRUE

lock_ready(holder) == holder = 0

first_step_compiler(view) == IF view.name \in {"def", "types"} THEN "resolve" ELSE "mkdir"

\* perform_inspection, lines 1029-1058: every arm of the match on the view
\* starts with the resolution of the symbol.
first_step(view) == "resolve"

\* InspectionContext::lock_workspace, then `provenance.workspace_locked = true`.
AcquireWorkspace(p) ==
    /\ At(p, "lock_ws")
    /\ lock_ready(wsLock)
    /\ wsLock' = p
    /\ prov' = [prov EXCEPT ![p].workspace_locked = TRUE]
    /\ did' = [did EXCEPT ![p] = @ \cup {"lock"}]
    /\ pc' = [pc EXCEPT ![p] = first_step(ctx[p].view)]
    /\ UNCHANGED <<sideVars, channel, defaultGating, initialized, lspClosed, ctx, res, anaLock,
                   rd, child, run>>

\* inspect always passes Some(line), Some(character); the aliases pass what
\* the caller gave.
PositionInputs(tool) == IF tool = "inspect" THEN {TRUE} ELSE BOOLEAN

\* resolve_definition / resolve_types / resolve_normalized_symbol: the
\* position check that opens each of them.
ResolveStart(p, has_position) ==
    /\ At(p, "resolve")
    /\ IF has_position
       THEN /\ pc' = [pc EXCEPT ![p] = "lock_analyzer"]
            /\ UNCHANGED <<res, wsLock, anaLock>>
       ELSE Returns(p, mcp_error("INVALID_PARAMS", "missing_position", NoData))
    /\ UNCHANGED <<sideVars, channel, defaultGating, initialized, lspClosed, ctx, prov, rd, child,
                   run, did>>

\* The text a tool of the language server returns: the handler makes a
\* success of the error of the client too.
tool_text(text) == [kind |-> "text", text |-> text]

\* The request an operation of the client sends first.
first_request(tool) == IF tool = "find_references" THEN "references" ELSE "definition"

\* handler.rs, find_references: a tool that goes to the language server
\* without an inspection. Nothing is awaited before the lock of the client.
BeginTool(p) ==
    /\ At(p, "idle")
    /\ ctx' = [ctx EXCEPT ![p] = [tool |-> "find_references", name |-> "none",
                                  view |-> NoView, gating |-> defaultGating,
                                  symbol_name |-> None, resolved |-> "unresolved"]]
    /\ did' = [did EXCEPT ![p] = {}]
    /\ pc' = [pc EXCEPT ![p] = "lock_analyzer"]
    /\ UNCHANGED <<sideVars, channel, defaultGating, initialized, lspClosed, prov, res,
                   wsLock, anaLock, rd, child, run>>

after_client_lock_workspace(tool) == "lock_ws"

\* What a call awaits next once it holds the mutex of the client: the write
\* of its request (handler.rs 153-186, 1315-1331: no other lock is asked for
\* under the guard of the client).
after_client_lock(tool) == "lsp_write"

\* self.analyzer.lock().await, then the operation of the client up to its
\* first await: ensure_initialized and the request being built.
LockAnalyzer(p) ==
    /\ At(p, "lock_analyzer")
    /\ lock_ready(anaLock)
    /\ IF initialized
       THEN /\ anaLock' = p
            /\ rd' = [rd EXCEPT ![p] = [call |-> first_request(ctx[p].tool),
                                        content_length |-> FALSE, line |-> "none"]]
            /\ pc' = [pc EXCEPT ![p] = after_client_lock(ctx[p].tool)]
            /\ UNCHANGED <<res, wsLock>>
       ELSE /\ Returns(p, IF ctx[p].tool = "find_references"
                          THEN tool_text("Error: Client not initialized")
                          ELSE mcp_error("INTERNAL_ERROR", "resolve_failed", NoData))
            /\ UNCHANGED rd
    /\ UNCHANGED <<sideVars, channel, defaultGating, initialized, lspClosed, ctx, prov,
                   child, run, did>>

\* The request in flight failed (an Err out of send_request_internal).
\* definition: the inspection fails; documentSymbol: definition_details goes on
\* with an empty symbol path.
LspCallFails(p) ==
    IF rd[p].call = "references"
    THEN /\ Returns(p, tool_text("Error"))
         /\ rd' = [rd EXCEPT ![p] = NoRd]
    ELSE IF rd[p].call = "definition"
    THEN /\ Returns(p, mcp_error("INTERNAL_ERROR", "resolve_failed", NoData))
         /\ rd' = [rd EXCEPT ![p] = NoRd]
    ELSE /\ pc' = [pc EXCEPT ![p] = "resolved"]
         /\ rd' = [rd EXCEPT ![p] = NoRd]
         /\ UNCHANGED <<res, wsLock, anaLock>>

\* read_response returned the frame with the expected id.
LspCallReturns(p, body) ==
    IF rd[p].call = "references"
    THEN /\ Returns(p, tool_text("References"))
         /\ rd' = [rd EXCEPT ![p] = NoRd]
    ELSE IF rd[p].call = "definition"
    THEN CASE body = "match_ok" ->
                /\ rd' = [rd EXCEPT ![p] = [call |-> "documentSymbol",
                                            content_length |-> FALSE, line |-> "none"]]
                /\ pc' = [pc EXCEPT ![p] = "lsp_write"]
                /\ UNCHANGED <<res, wsLock, anaLock>>
           [] body = "match_none" ->
                /\ Returns(p, mcp_error("RESOURCE_NOT_FOUND", "symbol_not_found", NoData))
                /\ rd' = [rd EXCEPT ![p] = NoRd]
           [] OTHER ->
                /\ Returns(p, mcp_error("INTERNAL_ERROR", "resolve_failed", NoData))
                /\ rd' = [rd EXCEPT ![p] = NoRd]
    ELSE /\ pc' = [pc EXCEPT ![p] = "resolved"]
         /\ rd' = [rd EXCEPT ![p] = NoRd]
         /\ UNCHANGED <<res, wsLock, anaLock>>

----------------------------------------------------------------------------
(* client.rs: send_request_internal = send_message, then read_response *)

\* send_message: the write and flush on the server's stdin. It can fail only
\* once the server is gone.
WriteOutcomes == IF lspClosed THEN BOOLEAN ELSE {TRUE}

LspWrite(p, ok) ==
    /\ At(p, "lsp_write")
    /\ did' = [did EXCEPT ![p] = @ \cup {"lsp"}]
    /\ IF ok
       THEN /\ pc' = [pc EXCEPT ![p] = "rd_line"]
            /\ UNCHANGED <<res, wsLock, anaLock, rd>>
       ELSE LspCallFails(p)
    /\ UNCHANGED <<sideVars, channel, defaultGating, initialized, lspClosed, ctx, prov,
                   child, run>>

\* What reader.read_line can yield. At end of stream it returns Ok(0) and
\* leaves the line empty ("eof"); otherwise the server decides: a
\* Content-Length header ("len"), one whose number does not parse ("len_bad"),
\* the blank line ending the headers ("blank"), another header ("other"), or
\* bytes that are not UTF-8 ("io_error").
LineInputs ==
    IF lspClosed THEN {"eof"} ELSE {"len", "len_bad", "blank", "other", "io_error"}

\* read_response, lines 148-149: `reader.read_line(&mut line).await?`.
ReadLine(p, line) ==
    /\ At(p, "rd_line")
    /\ IF line = "io_error"
       THEN LspCallFails(p)
       ELSE /\ rd' = [rd EXCEPT ![p].line = line]
            /\ pc' = [pc EXCEPT ![p] = "rd_check"]
            /\ UNCHANGED <<res, wsLock, anaLock>>
    /\ UNCHANGED <<sideVars, channel, defaultGating, initialized, lspClosed, ctx, prov,
                   child, run, did>>

\* The state read_response is in after looking at a line (lines 151-161):
\* "fail" (the length did not parse), "rd_body" (headers ended, a length is
\* known) or "rd_line" (read the next line; a blank line without a length
\* starts the next frame).
next_after_line(line, content_length) ==
    CASE line = "len_bad" -> "fail"
      [] line = "blank" /\ content_length -> "rd_body"
      [] OTHER -> "rd_line"

CheckLine(p) ==
    LET next == next_after_line(rd[p].line, rd[p].content_length)
    IN /\ At(p, "rd_check")
       /\ IF next = "fail"
          THEN LspCallFails(p)
          ELSE /\ pc' = [pc EXCEPT ![p] = next]
               /\ rd' = [rd EXCEPT ![p].content_length =
                            CASE rd[p].line = "len" -> TRUE
                              [] rd[p].line = "blank" /\ ~rd[p].content_length -> FALSE
                              [] OTHER -> @,
                         ![p].line = "none"]
               /\ UNCHANGED <<res, wsLock, anaLock>>
       /\ UNCHANGED <<sideVars, channel, defaultGating, initialized, lspClosed, ctx, prov,
                      child, run, did>>

\* What the content of a frame can be: the response with the expected id and
\* a usable result ("match_ok"), with an empty result ("match_none"), without
\* a result or with one that does not deserialize ("match_bad"); a frame with
\* another id or none ("other_id"); bytes that are not JSON ("garbage"). At
\* end of stream read_exact fails ("eof").
BodyInputs ==
    IF lspClosed THEN {"eof"}
    ELSE {"match_ok", "match_none", "match_bad", "other_id", "garbage"}

\* read_response, lines 162-171.
ReadBody(p, body) ==
    /\ At(p, "rd_body")
    /\ CASE body \in {"eof", "garbage"} -> LspCallFails(p)
         [] body = "other_id" ->
              /\ pc' = [pc EXCEPT ![p] = "rd_line"]
              /\ rd' = [rd EXCEPT ![p].content_length = FALSE]
              /\ UNCHANGED <<res, wsLock, anaLock>>
         [] OTHER -> LspCallReturns(p, body)
    /\ UNCHANGED <<sideVars, channel, defaultGating, initialized, lspClosed, ctx, prov,
                   child, run, did>>

\* The language server exits or closes its stdout.
ServerClose ==
    /\ Quiet
    /\ ~lspClosed
    /\ lspClosed' = TRUE
    /\ UNCHANGED <<sideVars, channel, defaultGating, initialized, pc, ctx, prov, res, wsLock,
                   anaLock, rd, child, run, did>>

----------------------------------------------------------------------------
(* handler.rs: the end of perform_inspection *)

SymbolKinds == {"FreeFunction", "Method", "Type", "Other"}

\* Lines 1150-1164: drop(workspace_guard), truncate_with_limits, the result.
\* `fits` says whether the text is within the limits; the diagnostics hold
\* the truncation note (the stderr note of a compile is not modelled).
inspection_result(provenance_so_far, view, fits) ==
    [kind |-> "ok", view |-> view.name, symbol |-> "some", text |-> "text",
     truncated |-> ~fits,
     diagnostics |-> IF fits THEN <<>> ELSE <<"Output truncated">>,
     provenance |-> [provenance_so_far EXCEPT !.truncation = IF fits THEN "none" ELSE "some"]]

\* What a call keeps of the identity its position resolved to: the kind of
\* the symbol, a free function and a method both as "Function".
resolved_as(identity) ==
    IF identity \in {"FreeFunction", "Method"} THEN "Function" ELSE identity

is_function_any(kind) == TRUE

\* matches!(identity.kind, SymbolKind::FreeFunction | SymbolKind::Method)
is_function(kind) == kind \in {"FreeFunction", "Method"}

\* non_function_error(&identity)
non_function_error(identity) ==
    mcp_error("INVALID_PARAMS", "non_function", [kind |-> identity])

\* definition_details has returned Some(details). identity_from_definition
\* yields None ("none") or an identity of some kind. def and types return
\* from here; the compiling views check the kind and enter run_compiler.
FinishResolve(p, identity, fits) ==
    /\ At(p, "resolved")
    /\ ctx' = [ctx EXCEPT ![p].resolved = resolved_as(identity)]
    /\ IF identity = "none"
       THEN Returns(p, mcp_error("RESOURCE_NOT_FOUND", "symbol_not_found", NoData))
       ELSE IF ctx[p].view.name \in {"def", "types"}
       THEN Returns(p, inspection_result(prov[p], ctx[p].view, fits))
       ELSE IF ~is_function(identity)
       THEN Returns(p, non_function_error(identity))
       ELSE /\ anaLock' = drop_guard(anaLock, p)
            /\ pc' = [pc EXCEPT ![p] = "mkdir"]
            /\ UNCHANGED <<res, wsLock>>
    /\ UNCHANGED <<sideVars, channel, defaultGating, initialized, lspClosed, prov, rd,
                   child, run, did>>

\* The caller has the value: the task of the call is over.
Return(p) ==
    /\ pc[p] = "ret"
    /\ pc' = [pc EXCEPT ![p] = "idle"]
    /\ ctx' = [ctx EXCEPT ![p] = NoCtx]
    /\ prov' = [prov EXCEPT ![p] = NoProv]
    /\ res' = [res EXCEPT ![p] = NoRes]
    /\ rd' = [rd EXCEPT ![p] = NoRd]
    /\ child' = [child EXCEPT ![p] = NoChild]
    /\ run' = [run EXCEPT ![p] = NoRun]
    /\ did' = [did EXCEPT ![p] = {}]
    /\ UNCHANGED <<sideVars, channel, defaultGating, initialized, lspClosed, wsLock, anaLock>>

----------------------------------------------------------------------------
(* runner.rs: the command of CompilerRunner::run *)

\* A PathBuf: the bytes of the path, and whether they are valid UTF-8.
PathBuf(os, utf8) == [os |-> os, utf8 |-> utf8]

\* Path::display().to_string(): the path itself when it is UTF-8, and
\* otherwise the path with U+FFFD in place of what is not.
display(path) == IF path.utf8 THEN path.os ELSE "caf?/Cargo.toml"

\* What `if let Some(v) = option` adds to a vector.
IfSome(option, items) == IF option.some THEN items ELSE <<>>

separator_with_opt_only(opt_level) ==
    IfSome(opt_level, <<"--", "-Copt-level=" \o opt_level.v>>)

\* Lines 109-117: the separator, with the opt level behind it when there is one.
separator(opt_level) ==
    IF opt_level.some THEN <<"--", "-Copt-level=" \o opt_level.v>> ELSE <<"--">>

\* The arguments the Command is given (command.arg), after the program cargo.
command_args(request) ==
    <<"rustc", "--offline">>
       \o IfSome(request.manifest_path, <<"--manifest-path", request.manifest_path.v.os>>)
       \o IfSome(request.package, <<"--package", request.package.v>>)
       \o IfSome(request.target_triple, <<"--target", request.target_triple.v>>)
       \o separator(request.opt_level)
       \o IfSome(request.emit, <<"--emit=" \o request.emit.v>>)
       \o IfSome(request.unpretty, <<"-Zunpretty=" \o request.unpretty.v>>)
       \o request.additional_rustc_args

\* The vector recorded as RunResult.command (command_line.push).
command_line(request) ==
    <<"cargo", "rustc", "--offline">>
       \o IfSome(request.manifest_path,
                 <<"--manifest-path", display(request.manifest_path.v)>>)
       \o IfSome(request.package, <<"--package", request.package.v>>)
       \o IfSome(request.target_triple, <<"--target", request.target_triple.v>>)
       \o separator(request.opt_level)
       \o IfSome(request.emit, <<"--emit=" \o request.emit.v>>)
       \o IfSome(request.unpretty, <<"-Zunpretty=" \o request.unpretty.v>>)
       \o request.additional_rustc_args

\* Command::env: the variable is set for the child, in place of what was
\* set for it before.
command_env(envs, key, value) ==
    [k \in DOMAIN envs \cup {key} |-> IF k = key THEN value ELSE envs[k]]

\* Lines 134-136: command.env for every entry of the BTreeMap request.env.
command_envs(envs, env) ==
    [k \in DOMAIN envs \cup DOMAIN env |-> IF k \in DOMAIN env THEN env[k] ELSE envs[k]]

child_env_request_last(target, env) == command_envs(command_env([k \in {} |-> ""], "CARGO_TARGET_DIR", target), env)

\* The variables the Command sets for the child: CARGO_TARGET_DIR (line 82),
\* the entries of request.env, and CARGO_TARGET_DIR again (line 137).
child_env(target, env) ==
    command_env(command_envs(command_env([k \in {} |-> ""], "CARGO_TARGET_DIR", target),
                             env),
                "CARGO_TARGET_DIR", target)

\* Option<&str>::map(to_string) of a view's emit and unpretty.
option_of(field) == IF field = "none" THEN None ELSE Some(field)

\* run_compiler, lines 1358-1368: the RunRequest of an inspection.
run_request(view, opt_level, target) ==
    [manifest_path |-> None, package |-> None, target_triple |-> target,
     opt_level |-> opt_level, emit |-> option_of(view.emit),
     unpretty |-> option_of(view.unpretty), additional_rustc_args |-> <<>>]

\* [String]::join(" ")
RECURSIVE join_str(_, _)
join_str(ss, sep) ==
    IF ss = <<>> THEN ""
    ELSE IF Len(ss) = 1 THEN Head(ss)
    ELSE Head(ss) \o sep \o join_str(Tail(ss), sep)

\* What the caller passes as opt_level and target.
CompileInputs ==
    {[opt_level |-> None, target |-> None],
     [opt_level |-> Some("3"), target |-> Some("x86_64-unknown-linux-gnu")]}

\* What the compiler has written to its stdout and stderr when it exits.
ChildOutputs ==
    {[stdout |-> "", stderr |-> ""], [stdout |-> "fn demo() {}", stderr |-> "warning: unused"]}

----------------------------------------------------------------------------
(* runner.rs: CompilerRunner::run, as run_compiler calls it *)

\* fs::create_dir_all(&self.target_dir).await?
CreateDir(p, ok) ==
    /\ At(p, "mkdir")
    /\ IF ok
       THEN /\ pc' = [pc EXCEPT ![p] = "scan_before"]
            /\ UNCHANGED <<res, wsLock, anaLock>>
       ELSE Returns(p, mcp_error("INTERNAL_ERROR", "runner_failed", NoData))
    /\ UNCHANGED <<sideVars, channel, defaultGating, initialized, lspClosed, ctx, prov, rd, child,
                   run, did>>

\* let before = collect_files(&self.target_dir).await.unwrap_or_default();
ScanBefore(p) ==
    /\ At(p, "scan_before")
    /\ pc' = [pc EXCEPT ![p] = "spawn"]
    /\ UNCHANGED <<sideVars, channel, defaultGating, initialized, lspClosed, ctx, prov, res,
                   wsLock, anaLock, rd, child, run, did>>

\* command.spawn(), the pipes taken, the two reader tasks spawned.
Spawn(p, ok, input) ==
    /\ At(p, "spawn")
    /\ IF ok
       THEN /\ child' = [child EXCEPT ![p] = [st |-> "running", status |-> "none",
                                              stdout_task |-> "running",
                                              stderr_task |-> "running",
                                              written |-> [stdout |-> "", stderr |-> ""]]]
            /\ run' = [run EXCEPT ![p].command =
                          command_line(run_request(ctx[p].view, input.opt_level, input.target))]
            /\ did' = [did EXCEPT ![p] = @ \cup {"rustc"}]
            /\ pc' = [pc EXCEPT ![p] = "wait"]
            /\ UNCHANGED <<res, wsLock, anaLock>>
       ELSE /\ Returns(p, mcp_error("INTERNAL_ERROR", "runner_failed", NoData))
            /\ UNCHANGED <<child, did, run>>
    /\ UNCHANGED <<sideVars, channel, defaultGating, initialized, lspClosed, ctx, prov, rd>>

\* The compiler finishes by itself.
ChildExit(p, status, written) ==
    /\ Quiet
    /\ child[p].st = "running"
    /\ child' = [child EXCEPT ![p].st = "exited", ![p].status = status,
                              ![p].written = written]
    /\ UNCHANGED <<sideVars, channel, defaultGating, initialized, lspClosed, pc, ctx, prov, res,
                   wsLock, anaLock, rd, run, did>>

\* A reader task reaches end-of-stream once the child's end of the pipe is closed.
DrainTask(p, task) ==
    /\ Quiet
    /\ child[p].st \in {"exited", "reaped"}
    /\ child[p][task] = "running"
    /\ child' = [child EXCEPT ![p][task] = "done"]
    /\ UNCHANGED <<sideVars, channel, defaultGating, initialized, lspClosed, pc, ctx, prov, res,
                   wsLock, anaLock, rd, run, did>>

\* timeout(limits.timeout(), child.wait()) completes with the exit status.
WaitReturns(p) ==
    /\ At(p, "wait")
    /\ child[p].st = "exited"
    /\ child' = [child EXCEPT ![p].st = "reaped"]
    /\ run' = [run EXCEPT ![p].status = child[p].status]
    /\ pc' = [pc EXCEPT ![p] = "join_out"]
    /\ UNCHANGED <<sideVars, channel, defaultGating, initialized, lspClosed, ctx, prov, res,
                   wsLock, anaLock, rd, did>>

\* The timer of timeout(..) fires while child.wait() is still pending.
TimeoutFires(p) ==
    /\ At(p, "wait")
    /\ child[p].st = "running"
    /\ pc' = [pc EXCEPT ![p] = "kill"]
    /\ did' = [did EXCEPT ![p] = @ \cup {"timeout"}]
    /\ UNCHANGED <<sideVars, channel, defaultGating, initialized, lspClosed, ctx, prov, res,
                   wsLock, anaLock, rd, child, run>>

\* child.kill(): SIGKILL to a child that still runs; a child that has exited
\* meanwhile keeps its status (the call's result is ignored either way).
kill_not_sent(c) == c

kill(c) == IF c.st = "running" THEN [c EXCEPT !.st = "exited", !.status = "killed"] ELSE c

Kill(p) ==
    /\ At(p, "kill")
    /\ child' = [child EXCEPT ![p] = kill(child[p])]
    /\ pc' = [pc EXCEPT ![p] = "reap"]
    /\ UNCHANGED <<sideVars, channel, defaultGating, initialized, lspClosed, ctx, prov, res,
                   wsLock, anaLock, rd, run, did>>

\* RunnerError::Timeout(limits.timeout()) as run_compiler reports it.
timeout_error(lim) ==
    mcp_error("INTERNAL_ERROR", "timeout",
              [timeout_seconds |-> lim.timeout_seconds, run_result |-> "none"])

\* let _ = child.wait().await; return Err(RunnerError::Timeout(..)).
Reap(p) ==
    /\ At(p, "reap")
    /\ child[p].st = "exited"
    /\ child' = [child EXCEPT ![p].st = "reaped"]
    /\ Returns(p, timeout_error(limits))
    /\ UNCHANGED <<sideVars, channel, defaultGating, initialized, lspClosed, ctx, prov, rd,
                   run, did>>

is_finished_always(task) == TRUE

\* The await of a JoinHandle completes once its task has returned.
is_finished(task) == task = "done"

\* stdout_task.await, then stderr_task.await: each yields what its task has
\* read to the end of the stream.
JoinTask(p) ==
    \/ /\ At(p, "join_out")
       /\ is_finished(child[p].stdout_task)
       /\ run' = [run EXCEPT ![p].stdout = child[p].written.stdout]
       /\ pc' = [pc EXCEPT ![p] = "join_err"]
       /\ UNCHANGED <<sideVars, channel, defaultGating, initialized, lspClosed, ctx, prov, res,
                      wsLock, anaLock, rd, child, did>>
    \/ /\ At(p, "join_err")
       /\ is_finished(child[p].stderr_task)
       /\ run' = [run EXCEPT ![p].stderr = child[p].written.stderr]
       /\ pc' = [pc EXCEPT ![p] = "scan_after"]
       /\ UNCHANGED <<sideVars, channel, defaultGating, initialized, lspClosed, ctx, prov, res,
                      wsLock, anaLock, rd, child, did>>

\* RunResult (the artifacts are those of the scans).
RunResult(status, stdout, stderr, command) ==
    [status |-> status, stdout |-> stdout, stderr |-> stderr, command |-> command]

compiler_failure_error_bare(result) ==
    mcp_error("INTERNAL_ERROR", "compiler_failed",
              [timeout_seconds |-> 0,
               run_result |-> [status |-> result.status, stdout |-> "",
                               stderr |-> "", command |-> <<>>]])

\* compiler_failure_error(&result): the data carries the RunResult's status,
\* stdout, stderr and command.
compiler_failure_error(result) ==
    mcp_error("INTERNAL_ERROR", "compiler_failed",
              [timeout_seconds |-> 0,
               run_result |-> [status |-> result.status, stdout |-> result.stdout,
                               stderr |-> result.stderr, command |-> result.command]])

with_command_none(provenance_so_far, command) == provenance_so_far

\* InspectionProvenance::with_command
with_command(provenance_so_far, command) ==
    [provenance_so_far EXCEPT !.command = Some(command)]

ExtractOutcomes == {"ok", "no_match", "ambiguous"}

\* The map_err of an extractor's Err in perform_inspection.
extract_error(outcome) ==
    mcp_error("RESOURCE_NOT_FOUND",
              IF outcome = "ambiguous" THEN "extract_ambiguous" ELSE "extract_no_match",
              NoData)

\* The post-run scan ends run; run_compiler checks the status; perform_inspection
\* records the command; mir is extracted from stdout and returned, llvm-ir and
\* asm go on to read the artifacts.
ScanAfter(p, outcome, fits) ==
    LET result == RunResult(run[p].status, run[p].stdout, run[p].stderr, run[p].command)
        provenance1 == with_command(prov[p], join_str(result.command, " "))
    IN /\ At(p, "scan_after")
       /\ run' = [run EXCEPT ![p].result = "RunResult"]
       /\ IF result.status # "success"
          THEN /\ Returns(p, compiler_failure_error(result))
               /\ UNCHANGED <<prov, did>>
          ELSE /\ prov' = [prov EXCEPT ![p] = provenance1]
               /\ IF ctx[p].view.name # "mir"
                  THEN /\ pc' = [pc EXCEPT ![p] = "read_art"]
                       /\ UNCHANGED <<res, wsLock, anaLock, did>>
                  ELSE /\ did' = [did EXCEPT ![p] = @ \cup {"extract"}]
                       /\ IF outcome = "ok"
                          THEN Returns(p, inspection_result(provenance1, ctx[p].view, fits))
                          ELSE Returns(p, extract_error(outcome))
       /\ UNCHANGED <<sideVars, channel, defaultGating, initialized, lspClosed, ctx, rd, child>>

\* What read_artifacts / load_assembly_artifacts and the extractor can come to.
ArtifactOutcomes ==
    {"read_failed", "too_large", "no_artifacts", "no_match", "ambiguous", "ok"}

\* read_artifacts or load_assembly_artifacts, then extract_llvm_ir or
\* extract_asm, then the end of perform_inspection.
ReadArtifacts(p, outcome, fits) ==
    /\ At(p, "read_art")
    /\ did' = [did EXCEPT ![p] = @ \cup {"artifacts"}
                                   \cup (IF outcome \in {"ok", "no_match", "ambiguous"}
                                         THEN {"extract"} ELSE {})]
    /\ CASE outcome = "read_failed" ->
              Returns(p, mcp_error("INTERNAL_ERROR", "artifact_read_failed", NoData))
         [] outcome = "too_large" ->
              Returns(p, mcp_error("INTERNAL_ERROR", "artifact_too_large", NoData))
         [] outcome = "no_artifacts" ->
              Returns(p, mcp_error("INTERNAL_ERROR", "no_artifacts", NoData))
         [] outcome = "ok" -> Returns(p, inspection_result(prov[p], ctx[p].view, fits))
         [] OTHER -> Returns(p, extract_error(outcome))
    /\ UNCHANGED <<sideVars, channel, defaultGating, initialized, lspClosed, ctx, prov, rd, child,
                   run>>

----------------------------------------------------------------------------
(* The server: concurrent tool calls *)

NoQuery == [view |-> NoView, channel |-> "Stable", gating |-> "Strict",
            answered |-> FALSE, advertised |-> FALSE, runnable |-> FALSE]

ServerInit ==
    /\ channel \in Channels
    /\ defaultGating \in GatingModes
    /\ initialized \in BOOLEAN
    /\ lspClosed = FALSE
    /\ pc = [p \in Procs |-> "idle"]
    /\ ctx = [p \in Procs |-> NoCtx]
    /\ prov = [p \in Procs |-> NoProv]
    /\ res = [p \in Procs |-> NoRes]
    /\ wsLock = 0
    /\ anaLock = 0
    /\ rd = [p \in Procs |-> NoRd]
    /\ child = [p \in Procs |-> NoChild]
    /\ run = [p \in Procs |-> NoRun]
    /\ did = [p \in Procs |-> {}]

\* The side variables while no pure function is under study.
NoCall == [fn |-> "none"]

MoreIdle == cm = NoCall /\ lc = NoCall /\ ds = NoCall /\ pp = NoCall

Init ==
    /\ ServerInit
    /\ q1 = NoQuery
    /\ q2 = NoQuery
    /\ ex = NoCall
    /\ tr = NoCall
    /\ fs = NoCall
    /\ MoreIdle

\* The symbol_name parameter of the inspection tools: absent, or a name.
SymbolNameInputs == {None, Some("renamed")}

\* perform_inspection as the four tools reach it.
Begin(p, tools, view_names, gating_inputs, symbol_names) ==
    \E tool \in tools :
       \E view_name \in view_names \cap ToolViewNames(tool),
          g \in gating_inputs \cap ToolGatingInputs(tool),
          symbol_name \in symbol_names :
          BeginInspect(p, tool, view_name, g, symbol_name)

\* Every step of a call after its first.
Progress(p) ==
    \/ AcquireWorkspace(p)
    \/ \E has_position \in PositionInputs(ctx[p].tool) : ResolveStart(p, has_position)
    \/ LockAnalyzer(p)
    \/ \E ok \in WriteOutcomes : LspWrite(p, ok)
    \/ \E line \in LineInputs : ReadLine(p, line)
    \/ CheckLine(p)
    \/ \E body \in BodyInputs : ReadBody(p, body)
    \/ \E identity \in SymbolKinds \cup {"none"}, fits \in BOOLEAN :
         FinishResolve(p, identity, fits)
    \/ \E ok \in BOOLEAN : CreateDir(p, ok)
    \/ ScanBefore(p)
    \/ \E ok \in BOOLEAN, input \in CompileInputs : Spawn(p, ok, input)
    \/ WaitReturns(p)
    \/ TimeoutFires(p)
    \/ Kill(p)
    \/ Reap(p)
    \/ JoinTask(p)
    \/ \E outcome \in ExtractOutcomes, fits \in BOOLEAN : ScanAfter(p, outcome, fits)
    \/ \E outcome \in ArtifactOutcomes, fits \in BOOLEAN : ReadArtifacts(p, outcome, fits)
    \/ Return(p)

\* What happens to a call from outside the server.
Environment(p) ==
    \/ ServerClose
    \/ \E status \in {"success", "failure"}, written \in ChildOutputs :
         ChildExit(p, status, written)
    \/ \E task \in {"stdout_task", "stderr_task"} : DrainTask(p, task)

\* One caller that makes one tool call at a time, with every input.
Step(p) ==
    \/ \E g \in GatingInputs : Capabilities(p, g)
    \/ Begin(p, InspectTools, ViewNameInputs, GatingInputs, SymbolNameInputs)
    \/ Progress(p)

Next == Step(1) \/ Environment(1)

Spec == Init /\ [][Next]_vars

\* The scheduler runs a call that can go on, and a reader task that can.
FairSpec ==
    /\ Spec
    /\ WF_vars(Step(1))
    /\ WF_vars(\E task \in {"stdout_task", "stderr_task"} : DrainTask(1, task))

\* Concurrent calls of inspect.
ConcViewNames == {"def", "asm"}

ConcInit ==
    /\ Init
    /\ channel = "Nightly"
    /\ defaultGating = "Strict"
    /\ initialized

ConcNext ==
    \E p \in Procs :
       \/ Begin(p, {"inspect"}, ConcViewNames, {"none"}, {None})
       \/ BeginTool(p)
       \/ Progress(p)
       \/ Environment(p)

ConcSpec == ConcInit /\ [][ConcNext]_vars

----------------------------------------------------------------------------
(* The gating rules by themselves: two queries, each answered once *)

Queries ==
    [view : {curated[i] : i \in 1..Len(curated)}, channel : Channels,
     gating : GatingModes, answered : {FALSE}, advertised : {FALSE}, runnable : {FALSE}]

Answer(q) ==
    [q EXCEPT !.answered = TRUE,
              !.advertised = is_view_advertised(q.view, q.channel, q.gating),
              !.runnable = is_view_runnable(q.view, q.channel)]

AskFirst ==
    /\ ~q1.answered
    /\ q1' = Answer(q1)
    /\ UNCHANGED <<q2, ex, tr, fs, moreVars, serverVars>>

AskSecond ==
    /\ ~q2.answered
    /\ q2' = Answer(q2)
    /\ UNCHANGED <<q1, ex, tr, fs, moreVars, serverVars>>

GatingInit ==
    /\ ServerInit
    /\ channel = "Stable"
    /\ defaultGating = "Strict"
    /\ initialized
    /\ q1 \in Queries
    /\ q2 \in Queries
    /\ ex = NoCall
    /\ tr = NoCall
    /\ fs = NoCall
    /\ MoreIdle

GatingNext == AskFirst \/ AskSecond

GatingSpec == GatingInit /\ [][GatingNext]_vars

----------------------------------------------------------------------------
(* Text. A string is a sequence of tokens: a token is a piece of text that  *)
(* the texts and names of this model are built from, " " is a blank and     *)
(* "\n" a line feed. Str gives the string itself.                           *)

RECURSIVE Str(_)
Str(s) == IF s = <<>> THEN "" ELSE Head(s) \o Str(Tail(s))

\* str::contains
contains(hay, needle) ==
    \E i \in 1..(Len(hay) - Len(needle) + 1) : SubSeq(hay, i, i + Len(needle) - 1) = needle

\* str::starts_with / ends_with, for a pattern of one token
starts_with(s, t) == s # <<>> /\ Head(s) = t
ends_with(s, t) == s # <<>> /\ s[Len(s)] = t

Whitespace == {" ", "\n"}

\* str::trim_start_matches / trim_end_matches, for a set of tokens
RECURSIVE trim_start_matches(_, _)
trim_start_matches(s, ts) ==
    IF s # <<>> /\ Head(s) \in ts THEN trim_start_matches(Tail(s), ts) ELSE s

RECURSIVE trim_end_matches(_, _)
trim_end_matches(s, ts) ==
    IF s # <<>> /\ s[Len(s)] \in ts THEN trim_end_matches(SubSeq(s, 1, Len(s) - 1), ts) ELSE s

trim_matches(s, ts) == trim_end_matches(trim_start_matches(s, ts), ts)
trim_start(s) == trim_start_matches(s, Whitespace)
trim(s) == trim_matches(s, Whitespace)

\* The position of the first token t of s, 0 when there is none.
position(s, t) ==
    IF \E i \in 1..Len(s) : s[i] = t
    THEN CHOOSE i \in 1..Len(s) : s[i] = t /\ \A j \in 1..(i - 1) : s[j] # t
    ELSE 0

\* str::lines: the lines without their line feeds; a final line feed opens no
\* further line.
RECURSIVE lines(_)
lines(text) ==
    IF text = <<>> THEN <<>>
    ELSE LET nl == position(text, "\n")
         IN IF nl = 0 THEN <<text>>
            ELSE <<SubSeq(text, 1, nl - 1)>> \o lines(SubSeq(text, nl + 1, Len(text)))

\* [&str]::join
RECURSIVE join(_, _)
join(ss, sep) ==
    IF ss = <<>> THEN <<>>
    ELSE IF Len(ss) = 1 THEN Head(ss)
    ELSE Head(ss) \o sep \o join(Tail(ss), sep)

RECURSIVE Concat(_)
Concat(ss) == IF ss = <<>> THEN <<>> ELSE Head(ss) \o Concat(Tail(ss))

\* format!("{}", n) of an unsigned number
RECURSIVE Decimal(_)
Decimal(n) ==
    LET digit == <<"0", "1", "2", "3", "4", "5", "6", "7", "8", "9">>[(n % 10) + 1]
    IN IF n < 10 THEN digit ELSE Decimal(n \div 10) \o digit

----------------------------------------------------------------------------
(* extract.rs: NormalizedSymbol *)

encode_rust_mangled_prefix_unsized(segments) == <<"_ZN">> \o segments

\* Every segment is one token, and so is its length.
RECURSIVE encode_rust_mangled_prefix(_)
encode_rust_mangled_prefix(segments) ==
    IF segments = <<>> THEN <<"_ZN">>
    ELSE LET segment == segments[Len(segments)]
         IN encode_rust_mangled_prefix(SubSeq(segments, 1, Len(segments) - 1))
               \o <<Decimal(Len(segment)), segment>>

from_identity(identity) ==
    LET segments == <<identity.crate_name>> \o identity.module_path \o <<identity.item_name>>
    IN [def_name |-> join([i \in 1..Len(segments) |-> <<segments[i]>>], <<"::">>),
        item_name |-> <<identity.item_name>>,
        mangled |-> None,
        target |-> None,
        mangled_prefix |-> encode_rust_mangled_prefix(segments)]

with_mangled(symbol, mangled) == [symbol EXCEPT !.mangled = Some(mangled)]
with_target(symbol, target) == [symbol EXCEPT !.target = Some(target)]

----------------------------------------------------------------------------
(* extract.rs: the splitters and the extractors *)

Candidate(header, content) == [header |-> header, content |-> content]

MapHeaders(matches) == [i \in 1..Len(matches) |-> matches[i].header]

\* What an extractor returns: Ok(content), or the error of a bail!.
Ok(content) == [kind |-> "ok", content |-> content]
Err(error, what, names) == [kind |-> "err", error |-> error, what |-> what, names |-> names]

select_unique_match_first(matches, what, symbol) ==
    IF matches = <<>> THEN Err("no_match", what, <<>>) ELSE Ok(matches[1].content)

select_unique_match(matches, what, symbol) ==
    IF matches = <<>>
    THEN Err("no_match", what,
             <<symbol.def_name, symbol.item_name>>
                \o (IF symbol.mangled.some THEN <<symbol.mangled.v>>
                    ELSE IF symbol.mangled_prefix # <<>> THEN <<symbol.mangled_prefix>>
                    ELSE <<>>))
    ELSE IF Len(matches) > 1
    THEN Err("multiple", what, MapHeaders(matches))
    ELSE Ok(matches[1].content)

is_mir_header(line) ==
    \E t \in {"fn ", "const ", "static ", "promoted["} : starts_with(trim_start(line), t)

block_header(block) == IF lines(block) = <<>> THEN <<>> ELSE trim(lines(block)[1])

\* The loop of split_mir_blocks over the lines ls, from its state after the
\* lines before them.
RECURSIVE mir_lines(_, _, _, _)
mir_lines(ls, blocks, current, capturing) ==
    IF ls = <<>>
    THEN IF capturing /\ current # <<>> THEN Append(blocks, trim(current)) ELSE blocks
    ELSE LET line == Head(ls)
             flush == is_mir_header(line) /\ capturing /\ current # <<>>
             blocks1 == IF flush THEN Append(blocks, trim(current)) ELSE blocks
             current1 == IF flush THEN <<>> ELSE current
             capturing1 == capturing \/ is_mir_header(line)
             current2 == IF capturing1
                         THEN (IF current1 # <<>> THEN current1 \o <<"\n">> ELSE current1) \o line
                         ELSE current1
         IN mir_lines(Tail(ls), blocks1, current2, capturing1)

split_mir_blocks_whole(output) == IF trim(output) = <<>> THEN <<>> ELSE <<trim(output)>>

split_mir_blocks(output) == mir_lines(lines(output), <<>>, <<>>, FALSE)

\* extract_llvm_symbol_name: what follows the first '@', up to the next '@'
\* and up to the first '(', without the quotes around it.
extract_llvm_symbol_name(line) ==
    LET at == position(line, "@")
        rest == SubSeq(line, at + 1, Len(line))
        at2 == position(rest, "@")
        after_at == IF at2 = 0 THEN rest ELSE SubSeq(rest, 1, at2 - 1)
        paren == position(after_at, "(")
        name_part == IF paren = 0 THEN after_at ELSE SubSeq(after_at, 1, paren - 1)
    IN IF at = 0 THEN None ELSE Some(trim_matches(name_part, {"\""}))

\* The loop of split_llvm_blocks and of split_asm_blocks over the lines ls,
\* from its state after the lines before them: opens[i] says whether the
\* i-th line opens a block, names[i] is the Option of the name it gives.
RECURSIVE named_lines(_, _, _, _, _, _)
named_lines(ls, opens, names, blocks, current_name, current_lines) ==
    IF ls = <<>>
    THEN IF current_name.some
         THEN Append(blocks, <<current_name.v, join(current_lines, <<"\n">>)>>)
         ELSE blocks
    ELSE LET line == Head(ls)
             flush == Head(opens) /\ current_name.some
             blocks1 == IF flush
                        THEN Append(blocks, <<current_name.v, join(current_lines, <<"\n">>)>>)
                        ELSE blocks
             lines1 == IF flush THEN <<>> ELSE current_lines
             name1 == IF Head(opens) THEN Head(names) ELSE current_name
             lines2 == IF name1.some THEN Append(lines1, line) ELSE lines1
         IN named_lines(Tail(ls), Tail(opens), Tail(names), blocks1, name1, lines2)

is_define(line) == starts_with(trim_start(line), "define")

split_llvm_blocks(output) ==
    LET ls == lines(output)
    IN named_lines(ls, [i \in 1..Len(ls) |-> is_define(ls[i])],
                   [i \in 1..Len(ls) |-> extract_llvm_symbol_name(ls[i])], <<>>, None, <<>>)

is_label(line) == ends_with(trim(line), ":") /\ ~starts_with(trim(line), "#")

label_of(line) == Some(trim_matches(trim_end_matches(trim(line), {":"}), {"\""}))

split_asm_blocks(output) ==
    LET ls == lines(output)
    IN named_lines(ls, [i \in 1..Len(ls) |-> is_label(ls[i])],
                   [i \in 1..Len(ls) |-> label_of(ls[i])], <<>>, None, <<>>)

MapCandidates(named) == [i \in 1..Len(named) |-> Candidate(named[i][1], named[i][2])]

\* The three vectors the loops of extract_llvm_ir and extract_asm fill from
\* the (name, block) pairs: a pair goes to the first vector it qualifies for.
is_exact_never(symbol, name) == FALSE

is_exact(symbol, name) == symbol.mangled.some /\ contains(name, symbol.mangled.v)

is_prefix_never(symbol, name) == FALSE

is_prefix(symbol, name) ==
    /\ ~is_exact(symbol, name)
    /\ symbol.mangled_prefix # <<>>
    /\ contains(name, symbol.mangled_prefix)

extract_mir_any_name(mir_outputs, symbol) ==
    LET blocks == Concat([i \in 1..Len(mir_outputs) |-> split_mir_blocks(mir_outputs[i])])
        matches == SelectSeq(blocks, LAMBDA block :
                        contains(block, symbol.def_name) \/ contains(block, symbol.item_name))
    IN select_unique_match(
           [i \in 1..Len(matches) |-> Candidate(block_header(matches[i]), matches[i])],
           "MIR", symbol)

extract_mir(mir_outputs, symbol) ==
    LET blocks == Concat([i \in 1..Len(mir_outputs) |-> split_mir_blocks(mir_outputs[i])])
        def_blocks == SelectSeq(blocks, LAMBDA block : contains(block, symbol.def_name))
        name_blocks == SelectSeq(blocks, LAMBDA block :
                           /\ ~contains(block, symbol.def_name)
                           /\ contains(block, symbol.item_name))
        def_matches == [i \in 1..Len(def_blocks) |->
                           Candidate(block_header(def_blocks[i]), def_blocks[i])]
        name_matches == [i \in 1..Len(name_blocks) |->
                            Candidate(block_header(name_blocks[i]), name_blocks[i])]
        matches == IF def_matches # <<>> THEN def_matches ELSE name_matches
    IN select_unique_match(matches, "MIR", symbol)

extract_llvm_ir(llvm_outputs, symbol) ==
    LET named == Concat([i \in 1..Len(llvm_outputs) |-> split_llvm_blocks(llvm_outputs[i])])
        exact_matches == MapCandidates(SelectSeq(named, LAMBDA nb : is_exact(symbol, nb[1])))
        prefix_matches == MapCandidates(SelectSeq(named, LAMBDA nb : is_prefix(symbol, nb[1])))
        def_name_matches == MapCandidates(SelectSeq(named, LAMBDA nb :
                                /\ ~is_exact(symbol, nb[1])
                                /\ ~is_prefix(symbol, nb[1])
                                /\ contains(nb[2], symbol.def_name)))
    IN IF exact_matches # <<>> THEN select_unique_match(exact_matches, "LLVM IR", symbol)
       ELSE IF prefix_matches # <<>>
       THEN select_unique_match(prefix_matches, "LLVM IR (prefix)", symbol)
       ELSE select_unique_match(def_name_matches, "LLVM IR", symbol)

\* TargetedAssembly
TargetedAssembly(target, content) == [target |-> target, content |-> content]

MapContents(assemblies) == [i \in 1..Len(assemblies) |-> assemblies[i].content]

of_target_all(assemblies, target_triple) == assemblies

\* assemblies.iter().filter(|asm| asm.target == target_triple)
of_target(assemblies, target_triple) ==
    SelectSeq(assemblies, LAMBDA asm : asm.target = target_triple)

extract_asm(assemblies, symbol, target_triple) ==
    LET found_target == of_target(assemblies, target_triple) # <<>>
        contents == MapContents(of_target(assemblies, target_triple))
        named == Concat([i \in 1..Len(contents) |-> split_asm_blocks(contents[i])])
        exact_matches == MapCandidates(SelectSeq(named, LAMBDA nb : is_exact(symbol, nb[1])))
        prefix_matches == MapCandidates(SelectSeq(named, LAMBDA nb : is_prefix(symbol, nb[1])))
        name_matches == MapCandidates(SelectSeq(named, LAMBDA nb :
                            /\ ~is_exact(symbol, nb[1])
                            /\ ~is_prefix(symbol, nb[1])
                            /\ \/ contains(nb[2], symbol.def_name)
                               \/ contains(nb[2], symbol.item_name)))
    IN IF ~found_target
       THEN Err("no_target", "assembly", <<<<target_triple>>, symbol.def_name>>)
       ELSE IF exact_matches # <<>> THEN select_unique_match(exact_matches, "assembly", symbol)
       ELSE IF prefix_matches # <<>>
       THEN select_unique_match(prefix_matches, "assembly (prefix)", symbol)
       ELSE select_unique_match(name_matches, "assembly", symbol)

----------------------------------------------------------------------------
(* The extractors by themselves: one call on a text put together from blocks *)

MaxBlocks == 2

\* fn demo::utils::do_thing, a sibling, a function whose name goes on from
\* do_thing's, a constant and a promoted that mention do_thing, a line that
\* opens no block, and an indented header.
MirPool ==
    { <<"fn ", "demo", "::", "utils", "::", "do_thing", "(_1: i32) -> i32 {", "\n",
        " ", "return;", "\n", "}", "\n">>,
      <<"fn ", "demo", "::", "utils", "::", "other", "() -> () {", "\n", "}", "\n">>,
      <<"fn ", "demo", "::", "utils", "::", "do_thing", "_2", "() -> () {", "\n", "}", "\n">>,
      <<"const ", "demo", "::", "LIMIT", ": i32 = {", "\n", " ", "do_thing", "\n", "}", "\n",
        "promoted[", "0] in ", "do_thing", ": i32 = {", "\n", "}", "\n">>,
      <<"// MIR for human consumers only", "\n", "\n">>,
      <<" ", "static ", "demo", "::", "A", ": i32 = {", "\n", "}", " ", "\n">> }

Hash1 == "17h1234abcdE"
Hash2 == "17h99999999E"

\* define of do_thing, of a sibling, of two closures inside do_thing (quoted),
\* the comment rustc writes before a define, and a declaration.
LlvmPool ==
    { <<"define", " ", "i32", " ", "@", "_ZN", "4", "demo", "5", "utils", "8", "do_thing", Hash1,
        "(", "i32 %x) {", "\n", " ", "ret i32 %x", "\n", "}", "\n">>,
      <<"define", " ", "void", " ", "@", "_ZN", "4", "demo", "5", "utils", "8", "do_other", Hash2,
        "(", ") {", "\n", " ", "ret void", "\n", "}", "\n">>,
      <<" ", "define", " ", "internal void", " ", "@", "\"", "_ZN", "4", "demo", "5", "utils", "8",
        "do_thing", "28_$u7b$$u7b$closure$u7d$$u7d$", Hash2, "\"", "(", ") {", "\n", "}", "\n",
        "define", " ", "internal void", " ", "@", "\"", "_ZN", "4", "demo", "5", "utils", "8",
        "do_thing", "28_$u7b$$u7b$closure$u7d$$u7d$", Hash1, "\"", "(", ") {", "\n", "}", "\n">>,
      <<"; ", "demo", "::", "utils", "::", "do_thing", "\n">>,
      <<"declare", " ", "void", " ", "@", "ext", "(", ")", "\n">> }

\* The label of do_thing, a sibling that calls do_thing, a local label, a
\* comment that ends with a colon, and the labels of two closures (one quoted).
AsmPool ==
    { <<"_ZN", "4", "demo", "5", "utils", "8", "do_thing", Hash1, ":", "\n",
        "\t", "retq", "\n">>,
      <<"_ZN", "4", "demo", "5", "utils", "8", "do_other", Hash2, ":", "\n",
        "\t", "callq", " ", "_ZN", "4", "demo", "5", "utils", "8", "do_thing", Hash1, "\n">>,
      <<".LBB0_1", ":", "\n", "\t", "nop", "\n">>,
      <<"#", " ", "demo", "::", "utils", "::", "do_thing", ":", "\n">>,
      <<" ", "\"", "_ZN", "4", "demo", "5", "utils", "8", "do_thing", "28_closure", Hash2, "\"",
        ":", " ", "\n", "\t", "retq", "\n",
        "_ZN", "4", "demo", "5", "utils", "8", "do_thing", "28_closure", Hash1, ":", "\n",
        "\t", "retq", "\n">> }

\* The target a call asks for, and the targets of its two assemblies.
RequestedTarget == "x86_64-unknown-linux-gnu"

TargetPairs ==
    {<<"x86_64-unknown-linux-gnu", "x86_64-unknown-linux-gnu">>,
     <<"aarch64-unknown-linux-gnu", "x86_64-unknown-linux-gnu">>,
     <<"aarch64-unknown-linux-gnu", "aarch64-unknown-linux-gnu">>}

\* SymbolIdentity: crate_name, module_path, item_name.
Identities ==
    [crate_name : {"demo"}, module_path : {<<>>, <<"utils">>},
     item_name : {"do_thing", "a_much_longer_name"}]

\* The exact mangled names a caller may attach.
MangledInputs ==
    { None,
      Some(<<"_ZN", "4", "demo", "5", "utils", "8", "do_thing", Hash1>>),
      Some(<<"_ZN", "4", "demo", "5", "utils", "8", "do_thing", "17h00000000E">>) }

\* The texts of at most MaxBlocks blocks of a pool, cut into two outputs.
BlockSeqs(pool) == UNION {[1..n -> pool] : n \in 0..MaxBlocks}

OutputPairs(pool) ==
    {<<Concat(SubSeq(bs, 1, k)), Concat(SubSeq(bs, k + 1, Len(bs)))>> :
        <<bs, k>> \in {x \in BlockSeqs(pool) \X (0..MaxBlocks) : x[2] <= Len(x[1])}}

NoSymbol == from_identity([crate_name |-> "", module_path |-> <<>>, item_name |-> ""])

ExtractCalls ==
    [fn : {"extract_mir"}, outputs : OutputPairs(MirPool), identity : Identities,
     mangled : {None}, done : {FALSE}, symbol : {NoSymbol}, result : {Ok(<<>>)}]
    \cup
    [fn : {"extract_llvm_ir"}, outputs : OutputPairs(LlvmPool), identity : Identities,
     mangled : MangledInputs, done : {FALSE}, symbol : {NoSymbol}, result : {Ok(<<>>)}]
    \cup
    [fn : {"extract_asm"}, outputs : OutputPairs(AsmPool), targets : TargetPairs,
     target_triple : {RequestedTarget}, identity : Identities,
     mangled : MangledInputs, done : {FALSE}, symbol : {NoSymbol}, result : {Ok(<<>>)}]

\* The symbol of a call: from_identity, and with_mangled where a name is given.
SymbolOf(call) ==
    IF call.mangled.some
    THEN with_mangled(from_identity(call.identity), call.mangled.v)
    ELSE from_identity(call.identity)

AssembliesOf(call) ==
    <<TargetedAssembly(call.targets[1], call.outputs[1]),
      TargetedAssembly(call.targets[2], call.outputs[2])>>

ExtractMir ==
    /\ ex.fn = "extract_mir" /\ ~ex.done
    /\ ex' = [ex EXCEPT !.done = TRUE, !.symbol = SymbolOf(ex),
                        !.result = extract_mir(ex.outputs, SymbolOf(ex))]
    /\ UNCHANGED <<serverVars, gateVars, tr, fs, moreVars>>

ExtractLlvmIr ==
    /\ ex.fn = "extract_llvm_ir" /\ ~ex.done
    /\ ex' = [ex EXCEPT !.done = TRUE, !.symbol = SymbolOf(ex),
                        !.result = extract_llvm_ir(ex.outputs, SymbolOf(ex))]
    /\ UNCHANGED <<serverVars, gateVars, tr, fs, moreVars>>

ExtractAsm ==
    /\ ex.fn = "extract_asm" /\ ~ex.done
    /\ ex' = [ex EXCEPT !.done = TRUE, !.symbol = SymbolOf(ex),
                        !.result = extract_asm(AssembliesOf(ex), SymbolOf(ex),
                                               ex.target_triple)]
    /\ UNCHANGED <<serverVars, gateVars, tr, fs, moreVars>>

\* The server variables of the specifications that study a function by itself.
ServerIdle ==
    /\ ServerInit
    /\ channel = "Stable"
    /\ defaultGating = "Strict"
    /\ initialized

ExtractInit ==
    /\ ServerIdle
    /\ q1 = NoQuery
    /\ q2 = NoQuery
    /\ ex \in ExtractCalls
    /\ tr = NoCall
    /\ fs = NoCall
    /\ MoreIdle

ExtractNext == ExtractMir \/ ExtractLlvmIr \/ ExtractAsm

ExtractSpec == ExtractInit /\ [][ExtractNext]_vars

----------------------------------------------------------------------------
(* inspection.rs: truncate_with_limits *)

\* text.as_bytes().len(): every token of the texts below is ASCII, and a line
\* feed is one byte.
RECURSIVE bytes_len(_)
bytes_len(text) ==
    IF text = <<>> THEN 0
    ELSE (IF Head(text) = "\n" THEN 1 ELSE Len(Head(text))) + bytes_len(Tail(text))

\* TruncationSummary
TruncationSummary(original_bytes, original_lines, kept_bytes, kept_lines, lim) ==
    [original_bytes |-> original_bytes, original_lines |-> original_lines,
     kept_bytes |-> kept_bytes, kept_lines |-> kept_lines,
     max_bytes |-> lim.max_output_bytes, max_lines |-> lim.max_output_lines]

\* The marker that ends a truncated text.
marker(summary) ==
    <<"\n", "[truncated after ", Decimal(summary.kept_lines), " lines/",
      Decimal(summary.kept_bytes), " bytes; original ", Decimal(summary.original_lines),
      " lines/", Decimal(summary.original_bytes), " bytes; limits ",
      Decimal(summary.max_lines), " lines/", Decimal(summary.max_bytes), " bytes]">>

fits_strictly(original_bytes, original_lines, lim) ==
    original_bytes < lim.max_output_bytes /\ original_lines < lim.max_output_lines

\* The test of the early return.
fits(original_bytes, original_lines, lim) ==
    original_bytes <= lim.max_output_bytes /\ original_lines <= lim.max_output_lines

breaches_lines_only(next_bytes, next_lines, lim) == next_lines > lim.max_output_lines

\* The test that ends the loop over the lines.
breaches(next_bytes, next_lines, lim) ==
    next_bytes > lim.max_output_bytes \/ next_lines > lim.max_output_lines

RECURSIVE kept_output_skipping(_, _, _, _, _)
kept_output_skipping(ls, lim, kept_bytes, kept_lines, truncated_output) ==
    IF ls = <<>>
    THEN [kept_bytes |-> kept_bytes, kept_lines |-> kept_lines, output |-> truncated_output]
    ELSE LET line_with_newline == Head(ls) \o <<"\n">>
             next_bytes == kept_bytes + bytes_len(line_with_newline)
             next_lines == kept_lines + 1
         IN IF breaches(next_bytes, next_lines, lim)
            THEN kept_output_skipping(Tail(ls), lim, kept_bytes, kept_lines,
                                      truncated_output)
            ELSE kept_output_skipping(Tail(ls), lim, next_bytes, next_lines,
                                      truncated_output \o line_with_newline)

\* The loop over the lines ls, from its state after the lines before them:
\* the output and the counts when it ends.
RECURSIVE kept_output(_, _, _, _, _)
kept_output(ls, lim, kept_bytes, kept_lines, truncated_output) ==
    IF ls = <<>>
    THEN [kept_bytes |-> kept_bytes, kept_lines |-> kept_lines, output |-> truncated_output]
    ELSE LET line_with_newline == Head(ls) \o <<"\n">>
             next_bytes == kept_bytes + bytes_len(line_with_newline)
             next_lines == kept_lines + 1
         IN IF breaches(next_bytes, next_lines, lim)
            THEN [kept_bytes |-> kept_bytes, kept_lines |-> kept_lines,
                  output |-> truncated_output]
            ELSE kept_output(Tail(ls), lim, next_bytes, next_lines,
                             truncated_output \o line_with_newline)

truncate_with_limits(text, lim) ==
    LET original_bytes == bytes_len(text)
        original_lines == Len(lines(text))
        kept == kept_output(lines(text), lim, 0, 0, <<>>)
        summary == TruncationSummary(original_bytes, original_lines,
                                     kept.kept_bytes, kept.kept_lines, lim)
    IN IF fits(original_bytes, original_lines, lim)
       THEN [text |-> text, truncated |-> FALSE, summary |-> None]
       ELSE [text |-> kept.output \o marker(summary), truncated |-> TRUE,
             summary |-> Some(summary)]

----------------------------------------------------------------------------
(* One call of truncate_with_limits *)

MaxTextLen == 4
MaxBytes == 6
MaxLines == 3

\* The pieces of the texts: a line feed, a blank, a word of one byte and a
\* word of three.
TextTokens == {"\n", " ", "a", "bcd"}

Texts == UNION {[1..n -> TextTokens] : n \in 0..MaxTextLen}

\* InspectionLimits
LimitInputs == [max_output_bytes : 0..MaxBytes, max_output_lines : 0..MaxLines]

TruncateCalls ==
    [fn : {"truncate_with_limits"}, text : Texts, limits : LimitInputs, done : {FALSE},
     result : {[text |-> <<>>, truncated |-> FALSE, summary |-> None]}]

Truncate ==
    /\ tr.fn = "truncate_with_limits" /\ ~tr.done
    /\ tr' = [tr EXCEPT !.done = TRUE, !.result = truncate_with_limits(tr.text, tr.limits)]
    /\ UNCHANGED <<serverVars, gateVars, ex, fs, moreVars>>

TruncateInit ==
    /\ ServerIdle
    /\ q1 = NoQuery
    /\ q2 = NoQuery
    /\ ex = NoCall
    /\ tr \in TruncateCalls
    /\ fs = NoCall
    /\ MoreIdle

TruncateNext == Truncate

TruncateSpec == TruncateInit /\ [][TruncateNext]_vars

----------------------------------------------------------------------------
(* runner.rs: collect_files and diff_paths around one compiler run *)

\* A path is the sequence of its components. The target directory of the
\* runner, and the files the compiler may leave under it.
target_dir == <<"/", "target">>

DiskPaths ==
    { target_dir \o <<"demo.ll">>,
      target_dir \o <<"debug", "demo.s">>,
      target_dir \o <<"debug", "demo.mir">> }

\* The directories read_dir may fail to read.
Directories == {target_dir, target_dir \o <<"debug">>}

\* Path::strip_prefix
strip_prefix(path, root) ==
    IF Len(path) >= Len(root) /\ SubSeq(path, 1, Len(root)) = root
    THEN Some(SubSeq(path, Len(root) + 1, Len(path)))
    ELSE None

\* Path::join: an absolute path replaces the root.
path_join(root, rel) == IF rel # <<>> /\ Head(rel) = "/" THEN rel ELSE root \o rel

\* The directories from root down to the one that holds path.
Ancestors(path, root) == {SubSeq(path, 1, n) : n \in Len(root)..(Len(path) - 1)}

collect_files_lenient(root, disk, unreadable, fails) == {SubSeq(path, Len(root) + 1, Len(path)) : path \in {q \in disk : Len(q) >= Len(root) /\ SubSeq(q, 1, Len(root)) = root /\ {SubSeq(q, 1, n) : n \in Len(root)..(Len(q) - 1)} \cap unreadable = {}}}

\* collect_files(root).await.unwrap_or_default(): the files below root,
\* relative to it, without those below a directory read_dir cannot read; the
\* empty set when an entry cannot be examined.
collect_files(root, disk, unreadable, fails) ==
    IF fails THEN {}
    ELSE {strip_prefix(path, root).v :
             path \in {q \in disk : /\ strip_prefix(q, root).some
                                    /\ Ancestors(q, root) \cap unreadable = {}}}

\* The orders in which a HashSet may hand out its elements.
Orders(S) == {seq \in [1..Cardinality(S) -> S] : \A i, j \in 1..Cardinality(S) :
                 seq[i] = seq[j] => i = j}

diff_paths_all(before, after, root) == {[i \in 1..Len(seq) |-> path_join(root, seq[i])] : seq \in Orders(after)}

\* diff_paths: every Vec it may return.
diff_paths(before, after, root) ==
    {[i \in 1..Len(seq) |-> path_join(root, seq[i])] : seq \in Orders(after \ before)}

MaxWrites == 2

MaxRuns == 2

ScanOutcomes == [fails : BOOLEAN, unreadable : SUBSET Directories]

\* How a scan went: collect_files returned Err ("failed"), returned Ok after
\* read_dir skipped a directory ("partial"), or read every directory ("ok").
scan_outcome(o) ==
    IF o.fails THEN "failed" ELSE IF o.unreadable # {} THEN "partial" ELSE "ok"

\* let before = collect_files(..)
CollectBefore ==
    /\ fs.fn = "run" /\ fs.phase = "start"
    /\ \E o \in ScanOutcomes :
          fs' = [fs EXCEPT !.phase = "spawned",
                           !.existed = fs.disk,
                           !.scan_before = scan_outcome(o),
                           !.before = collect_files(target_dir, fs.disk, o.unreadable, o.fails)]
    /\ UNCHANGED <<serverVars, gateVars, ex, tr, moreVars>>

\* The compiler writes a new file below the target directory.
CompilerWrites ==
    /\ fs.fn = "run" /\ fs.phase = "spawned" /\ fs.writes < MaxWrites
    /\ \E path \in DiskPaths \ fs.disk :
          fs' = [fs EXCEPT !.disk = fs.disk \cup {path}, !.writes = fs.writes + 1]
    /\ UNCHANGED <<serverVars, gateVars, ex, tr, moreVars>>

\* The compiler writes a file that is there again.
CompilerRewrites ==
    /\ fs.fn = "run" /\ fs.phase = "spawned" /\ fs.writes < MaxWrites
    /\ \E path \in fs.disk \ fs.rewritten :
          fs' = [fs EXCEPT !.rewritten = fs.rewritten \cup {path}, !.writes = fs.writes + 1]
    /\ UNCHANGED <<serverVars, gateVars, ex, tr, moreVars>>

\* The compiler removes a file below the target directory.
CompilerRemoves ==
    /\ fs.fn = "run" /\ fs.phase = "spawned" /\ fs.writes < MaxWrites
    /\ \E path \in fs.disk :
          fs' = [fs EXCEPT !.disk = fs.disk \ {path}, !.writes = fs.writes + 1,
                           !.removed = TRUE]
    /\ UNCHANGED <<serverVars, gateVars, ex, tr, moreVars>>

\* The run ends with an error (spawn, timeout, wait, join) and no RunResult.
RunFails ==
    /\ fs.fn = "run" /\ fs.phase = "spawned"
    /\ fs' = [fs EXCEPT !.phase = "failed"]
    /\ UNCHANGED <<serverVars, gateVars, ex, tr, moreVars>>

\* let after = collect_files(..), once the compiler has ended
CollectAfter ==
    /\ fs.fn = "run" /\ fs.phase = "spawned"
    /\ \E o \in ScanOutcomes :
          fs' = [fs EXCEPT !.phase = "scanned",
                           !.scan_after = scan_outcome(o),
                           !.after = collect_files(target_dir, fs.disk, o.unreadable, o.fails)]
    /\ UNCHANGED <<serverVars, gateVars, ex, tr, moreVars>>

\* let artifacts = diff_paths(before, after, &self.target_dir); Ok(RunResult)
DiffPaths ==
    /\ fs.fn = "run" /\ fs.phase = "scanned"
    /\ \E artifacts \in diff_paths(fs.before, fs.after, target_dir) :
          fs' = [fs EXCEPT !.phase = "returned", !.artifacts = artifacts]
    /\ UNCHANGED <<serverVars, gateVars, ex, tr, moreVars>>

\* What is kept of a run that returned, for the runs that follow it.
PastRun ==
    [artifacts |-> {fs.artifacts[i] : i \in 1..Len(fs.artifacts)},
     scans_ok |-> fs.scan_before = "ok" /\ fs.scan_after = "ok"]

\* The next inspection runs the compiler against the same target directory
\* (handler.rs: one CompilerRunner, one target_dir for every call).
NextRun ==
    /\ fs.fn = "run" /\ fs.phase = "returned" /\ Len(fs.past) + 1 < MaxRuns
    /\ fs' = [fs EXCEPT !.phase = "start", !.writes = 0, !.rewritten = {},
                        !.before = {}, !.after = {}, !.artifacts = <<>>,
                        !.scan_before = "none", !.scan_after = "none",
                        !.past = Append(fs.past, PastRun)]
    /\ UNCHANGED <<serverVars, gateVars, ex, tr, moreVars>>

ArtifactInit ==
    /\ ServerIdle
    /\ q1 = NoQuery
    /\ q2 = NoQuery
    /\ ex = NoCall
    /\ tr = NoCall
    /\ fs \in [fn : {"run"}, phase : {"start"}, disk : SUBSET DiskPaths, writes : {0},
               before : {{}}, after : {{}}, artifacts : {<<>>},
               existed : {{}}, rewritten : {{}}, removed : {FALSE},
               scan_before : {"none"}, scan_after : {"none"}, past : {<<>>}]
    /\ MoreIdle

ArtifactNext ==
    \/ CollectBefore
    \/ CompilerWrites
    \/ CompilerRewrites
    \/ CompilerRemoves
    \/ RunFails
    \/ CollectAfter
    \/ DiffPaths
    \/ NextRun

ArtifactSpec == ArtifactInit /\ [][ArtifactNext]_vars

----------------------------------------------------------------------------
(* One command built from a RunRequest *)

MaxArgs == 2

\* The target directory of the runner as the value of a variable.
target_dir_value == Str(target_dir)

\* RunRequest.env: a map from names to values, among them a
\* CARGO_TARGET_DIR of the caller's own.
RequestEnvs ==
    UNION {[K -> {target_dir_value, "/home/dev/target"}] :
              K \in SUBSET {"CARGO_TARGET_DIR", "RUSTFLAGS"}}

\* RunRequest. The target is the caller's string, passed on as it is.
RunRequests ==
    [manifest_path : {None, Some(PathBuf("demo/Cargo.toml", TRUE)),
                      Some(PathBuf("caf\\xE9/Cargo.toml", FALSE))},
     package : {None, Some("demo")},
     target_triple : {None, Some("x86_64-unknown-linux-gnu"), Some("--")},
     opt_level : {None, Some("3")},
     emit : {None, Some("asm"), Some("llvm-ir")},
     unpretty : {None, Some("mir")},
     additional_rustc_args : UNION {[1..n -> {"-g", "--"}] : n \in 0..MaxArgs},
     env : RequestEnvs]

\* Lines 79-141: the command is built and the process spawned with it.
BuildCommand ==
    /\ cm.fn = "run" /\ ~cm.done
    /\ cm' = [cm EXCEPT !.done = TRUE,
                        !.program = "cargo",
                        !.args = command_args(cm.request),
                        !.command = command_line(cm.request),
                        !.envs = child_env(target_dir_value, cm.request.env)]
    /\ UNCHANGED <<serverVars, gateVars, ex, tr, fs, lc, ds, pp>>

CommandInit ==
    /\ ServerIdle
    /\ q1 = NoQuery
    /\ q2 = NoQuery
    /\ ex = NoCall
    /\ tr = NoCall
    /\ fs = NoCall
    /\ cm \in [fn : {"run"}, request : RunRequests, done : {FALSE}, program : {""},
               args : {<<>>}, command : {<<>>}, envs : {[k \in {} |-> ""]}]
    /\ lc = NoCall
    /\ ds = NoCall
    /\ pp = NoCall

CommandNext == BuildCommand

CommandSpec == CommandInit /\ [][CommandNext]_vars

----------------------------------------------------------------------------
(* client.rs: RustAnalyzerClient and the frames of its language server *)

\* The requests one client sends, and the frames its server writes.
MaxRequests == 3
MaxFrames == 4

\* The result of the operation in progress or last finished: the operation,
\* whether the client was initialized when it was called, the length of the
\* trace at the call, and the Result it returned.
NoLast == [op |-> "none", was_initialized |-> FALSE, before |-> 0, result |-> "none"]

\* RustAnalyzerClient::new, with the pipes of the server it will spawn.
\* `out` holds the frames the server has written and the client has not
\* taken from the pipe; `cut` says that the first of them has lost its
\* beginning; `trace` is the history of the writes on the server's stdin and
\* of the frames read_response has consumed, and `spawned_at` its length
\* when the process the client holds was spawned. The server answers no
\* request up to `answered`: it has answered it, or it was written to a
\* server before it.
new ==
    [fn |-> "client", process |-> FALSE, request_id |-> 0, initialized |-> FALSE,
     pc |-> "idle", expected |-> 0, gone |-> FALSE, out |-> <<>>, cut |-> FALSE,
     produced |-> 0, answered |-> 0, trace |-> <<>>, last |-> NoLast,
     spawned_at |-> 0]

\* Line 51: self.process = Some(child). The child comes with pipes of its
\* own; the child held before is dropped with its pipes.
spawned_child(client) ==
    [client EXCEPT !.process = TRUE, !.gone = FALSE, !.out = <<>>, !.cut = FALSE,
                   !.answered = client.request_id, !.spawned_at = Len(client.trace)]

ensure_initialized_always(client) == TRUE

\* ensure_initialized, and the `if !self.initialized` of the other operations.
ensure_initialized(client) == client.initialized

next_request_id_same(request_id) == request_id

\* Line 112: self.request_id += 1
next_request_id(request_id) == request_id + 1

\* An operation of the client is entered.
Called(client, op) ==
    [client EXCEPT !.last = [op |-> op, was_initialized |-> client.initialized,
                             before |-> Len(client.trace), result |-> "pending"]]

\* The operation in progress returns.
Finished(client, result) == [client EXCEPT !.pc = "idle", !.last.result = result]

\* send_message with a process whose stdin takes the bytes.
Written(client, message) ==
    [client EXCEPT !.trace = Append(@, [ev |-> "write", message |-> message])]

\* send_notification: the message has no id. The write fails once the
\* server is gone.
send_notification(client, method) ==
    IF client.process /\ ~client.gone
    THEN Written(client, [id |-> None, method |-> method])
    ELSE client

\* send_request_internal up to its await on the pipe: the id is taken, the
\* request written, and read_response entered. Without a process
\* send_message writes nothing and read_response fails at once.
send_request_internal(client, method) ==
    LET counted == [client EXCEPT !.request_id = next_request_id(@)]
        request == [id |-> Some(counted.request_id), method |-> method]
    IN  IF ~counted.process THEN Finished(counted, "Failed to read response")
        ELSE IF counted.gone THEN Finished(counted, "Broken pipe")
        ELSE [Written(counted, request) EXCEPT !.pc = "read",
                                               !.expected = counted.request_id]

\* start: the server is spawned and initialize sent. Nothing in start looks
\* at the process or at the flag the client holds already, so it may be
\* called again (RustMcpServer::start, its caller, is public).
Start(spawned) ==
    /\ lc.pc = "idle"
    /\ lc.request_id < MaxRequests
    /\ lc' = IF spawned
             THEN send_request_internal(spawned_child(Called(lc, "start")), "initialize")
             ELSE Finished(Called(lc, "start"), "spawn failed")
    /\ UNCHANGED <<serverVars, gateVars, ex, tr, fs, cm, ds, pp>>

\* The requests of the operations that talk to the server.
Methods == {"textDocument/definition", "workspace/symbol"}

\* An operation that sends one request: workspace_symbols, find_references,
\* the first request of definition_details, ...
Request(method) ==
    /\ lc.pc = "idle"
    /\ lc.request_id < MaxRequests
    /\ lc' = IF ensure_initialized(lc)
             THEN send_request_internal(Called(lc, method), method)
             ELSE Finished(Called(lc, method), "Client not initialized")
    /\ UNCHANGED <<serverVars, gateVars, ex, tr, fs, cm, ds, pp>>

\* The id of the last request written, 0 if there is none.
LastWritten(client) ==
    LET ids == {client.trace[i].message.id.v :
                   i \in {j \in 1..Len(client.trace) :
                             /\ client.trace[j].ev = "write"
                             /\ client.trace[j].message.id.some}}
    IN  IF ids = {} THEN 0 ELSE CHOOSE n \in ids : \A m \in ids : m <= n

\* What the server can write next: a notification, a request of its own
\* (its ids start at 0), or the response to a request it has not answered.
ServerFrames(client) ==
    {[id |-> None, kind |-> "notification"], [id |-> Some(0), kind |-> "request"]}
    \cup (IF LastWritten(client) > client.answered
          THEN {[id |-> Some(LastWritten(client)), kind |-> "response"]}
          ELSE {})

ServerWrites(frame) ==
    /\ lc.process /\ ~lc.gone
    /\ lc.produced < MaxFrames
    /\ lc' = [lc EXCEPT !.out = Append(@, frame),
                        !.produced = @ + 1,
                        !.answered = IF frame.kind = "response" THEN frame.id.v ELSE @]
    /\ UNCHANGED <<serverVars, gateVars, ex, tr, fs, cm, ds, pp>>

\* The server exits: its end of the pipes is closed.
ServerExits ==
    /\ lc.process /\ ~lc.gone
    /\ lc' = [lc EXCEPT !.gone = TRUE]
    /\ UNCHANGED <<serverVars, gateVars, ex, tr, fs, cm, ds, pp>>

\* A frame read_response has consumed, and what it did with it.
Consumed(client, frame, how) ==
    [client EXCEPT !.trace = Append(@, [ev |-> "read", frame |-> frame,
                                        expected |-> client.expected, how |-> how])]

\* What follows `send_request_internal(...).await?`: initialize goes on with
\* the initialized notification (lines 94-98), an operation returns.
after_response(client) ==
    IF client.last.op = "start"
    THEN IF client.gone
         THEN Finished(client, "Broken pipe")
         ELSE Finished([send_notification(client, "initialized")
                           EXCEPT !.initialized = TRUE], "ok")
    ELSE Finished(client, "ok")

\* read_response, lines 144-172, on a pipe that starts with a whole frame:
\* the frame is parsed; it is returned if its id is the expected one and
\* dropped otherwise. The BufReader of line 142 belongs to this call: what it
\* has read from the pipe beyond the frame it returns goes with it. The pipe
\* hands over what is there, so `lost`, counted in halves of frames, is any
\* part of the frames that follow.
ReadFrame(lost) ==
    /\ lc.pc = "read"
    /\ ~lc.cut
    /\ lc.out # <<>>
    /\ LET frame == Head(lc.out)
           rest == Tail(lc.out)
       IN  IF frame.id = Some(lc.expected)
           THEN /\ lost \in 0..(2 * Len(rest))
                /\ lc' = after_response(
                            [Consumed(lc, frame, "returned")
                                EXCEPT !.out = SubSeq(rest, (lost \div 2) + 1, Len(rest)),
                                       !.cut = (lost % 2 = 1)])
           ELSE /\ lost = 0
                /\ lc' = [Consumed(lc, frame, "discarded") EXCEPT !.out = rest]
    /\ UNCHANGED <<serverVars, gateVars, ex, tr, fs, cm, ds, pp>>

\* read_response on a pipe that starts inside a frame: read_line takes what
\* is left of the frame together with the Content-Length line of the next
\* one as a single line, which is no header it knows; the blank line then
\* ends headers without a length and the loop starts again, inside the next
\* frame. No frame is parsed any more.
ReadCut ==
    /\ lc.pc = "read"
    /\ lc.cut
    /\ lc.out # <<>>
    /\ lc' = [Consumed(lc, Head(lc.out), "garbled") EXCEPT !.out = Tail(lc.out)]
    /\ UNCHANGED <<serverVars, gateVars, ex, tr, fs, cm, ds, pp>>

ClientInit ==
    /\ ServerIdle
    /\ q1 = NoQuery
    /\ q2 = NoQuery
    /\ ex = NoCall
    /\ tr = NoCall
    /\ fs = NoCall
    /\ cm = NoCall
    /\ lc = new
    /\ ds = NoCall
    /\ pp = NoCall

ClientNext ==
    \/ \E spawned \in BOOLEAN : Start(spawned)
    \/ \E method \in Methods : Request(method)
    \/ \E frame \in ServerFrames(lc) : ServerWrites(frame)
    \/ ServerExits
    \/ \E lost \in 0..(2 * MaxFrames) : ReadFrame(lost)
    \/ ReadCut

ClientSpec == ClientInit /\ [][ClientNext]_vars

----------------------------------------------------------------------------
(* client.rs: the symbol path of a position *)

\* The largest line and the largest character of a position.
MaxCoord == 1

\* position_in_range
position_in_range(range, pos) ==
    LET starts_before ==
            \/ range.start.line < pos.line
            \/ range.start.line = pos.line /\ range.start.character <= pos.character
        ends_after ==
            \/ range.end.line > pos.line
            \/ range.end.line = pos.line /\ range.end.character >= pos.character
    IN  starts_before /\ ends_after

\* find_symbol_path_in_document_symbols: the first symbol of the list whose
\* selection_range has the position, followed by what the same search finds
\* among its children.
RECURSIVE find_symbol_path_in_document_symbols(_, _)
find_symbol_path_in_document_symbols(symbols, pos) ==
    IF symbols = <<>> THEN None
    ELSE LET symbol == Head(symbols)
         IN  IF position_in_range(symbol.selection_range, pos)
             THEN LET path == <<[name |-> symbol.name, kind |-> symbol.kind]>>
                      child_path ==
                          IF symbol.children.some
                          THEN find_symbol_path_in_document_symbols(symbol.children.v,
                                                                    pos)
                          ELSE None
                  IN  Some(IF child_path.some THEN path \o child_path.v ELSE path)
             ELSE find_symbol_path_in_document_symbols(Tail(symbols), pos)

\* Position
Positions == [line : 0..MaxCoord, character : 0..MaxCoord]

\* The selection ranges: the name of a symbol, on one line.
SelectionRanges ==
    {r \in [start : Positions, end : Positions] :
        r.start.line = r.end.line /\ r.start.character <= r.end.character}

\* DocumentSymbol (kind 2 module, 12 function, 23 struct). The field range
\* is left out: the search does not read it.
DocumentSymbolOf(name, kind, selection_range, children) ==
    [name |-> name, kind |-> kind, selection_range |-> selection_range,
     children |-> children]

\* The responses of documentSymbol: a module with at most one function in
\* it, and at most one struct after it.
DocumentSymbols ==
    LET inner == {DocumentSymbolOf("inner", 12, r, None) : r \in SelectionRanges}
        outer == {DocumentSymbolOf("outer", 2, r, c) :
                     r \in SelectionRanges,
                     c \in {None} \cup {Some(<<s>>) : s \in inner}}
        next == {DocumentSymbolOf("next", 23, r, None) : r \in SelectionRanges}
    IN  {<<o>> : o \in outer} \cup {<<o, n>> : o \in outer, n \in next}

\* symbol_path_from_response on a DocumentSymbols response.
FindSymbolPath ==
    /\ ds.fn = "symbol_path" /\ ~ds.done
    /\ ds' = [ds EXCEPT !.done = TRUE,
                        !.path = find_symbol_path_in_document_symbols(ds.symbols,
                                                                      ds.position)]
    /\ UNCHANGED <<serverVars, gateVars, ex, tr, fs, cm, lc, pp>>

SymbolInit ==
    /\ ServerIdle
    /\ q1 = NoQuery
    /\ q2 = NoQuery
    /\ ex = NoCall
    /\ tr = NoCall
    /\ fs = NoCall
    /\ cm = NoCall
    /\ lc = NoCall
    /\ ds \in [fn : {"symbol_path"}, symbols : DocumentSymbols, position : Positions,
               done : {FALSE}, path : {None}]
    /\ pp = NoCall

SymbolNext == FindSymbolPath

SymbolSpec == SymbolInit /\ [][SymbolNext]_vars

----------------------------------------------------------------------------
(* runner.rs: the pipes of the child while CompilerRunner::run waits *)

\* The writes of one child, and the writes a pipe holds before the next one
\* blocks.
MaxChunks == 3
PipeCapacity == 1

tokio_spawn_after_wait(at) == at # "wait"

\* tokio::spawn (lines 152-161): the task runs from the spawn on, wherever
\* the function that spawned it is suspended.
tokio_spawn(at) == TRUE

\* What a child writes: every write goes to one of the two pipes.
Scripts == UNION {[1..n -> {"stdout", "stderr"}] : n \in 0..MaxChunks}

\* The state right after command.spawn() and the two tokio::spawn: the child
\* runs its script, the pipes are empty, the runner is about to wait.
Spawned(script) ==
    [fn |-> "run", script |-> script, next |-> 1, st |-> "running",
     pipe |-> [stdout |-> <<>>, stderr |-> <<>>],
     task |-> [stdout |-> "running", stderr |-> "running"],
     buf |-> [stdout |-> <<>>, stderr |-> <<>>],
     pc |-> "wait", status |-> "none",
     result |-> [stdout |-> <<>>, stderr |-> <<>>]]

\* The child is at a write that its pipe has no room for.
Blocked(c) ==
    /\ c.st = "running"
    /\ c.next <= Len(c.script)
    /\ Len(c.pipe[c.script[c.next]]) >= PipeCapacity

\* The child's next write is accepted by the pipe.
ChildWrites ==
    /\ pp.st = "running"
    /\ pp.next <= Len(pp.script)
    /\ ~Blocked(pp)
    /\ pp' = [pp EXCEPT !.pipe[pp.script[pp.next]] = Append(@, pp.next),
                        !.next = @ + 1]
    /\ UNCHANGED <<serverVars, gateVars, ex, tr, fs, cm, lc, ds>>

\* The child has written everything and exits; its ends of the pipes close.
ChildDone ==
    /\ pp.st = "running"
    /\ pp.next > Len(pp.script)
    /\ pp' = [pp EXCEPT !.st = "exited"]
    /\ UNCHANGED <<serverVars, gateVars, ex, tr, fs, cm, lc, ds>>

\* read_to_end of a reader task: it takes what the pipe holds, and returns
\* at end-of-stream, when the pipe is empty and the child has closed it.
ReaderReads(name) ==
    /\ tokio_spawn(pp.pc)
    /\ pp.task[name] = "running"
    /\ IF pp.pipe[name] # <<>>
       THEN pp' = [pp EXCEPT !.buf[name] = @ \o pp.pipe[name], !.pipe[name] = <<>>]
       ELSE /\ pp.st # "running"
            /\ pp' = [pp EXCEPT !.task[name] = "done"]
    /\ UNCHANGED <<serverVars, gateVars, ex, tr, fs, cm, lc, ds>>

\* Lines 163-170: timeout(limits.timeout(), child.wait()).
PipeWait ==
    /\ pp.pc = "wait"
    /\ \/ /\ pp.st = "exited"
          /\ pp' = [pp EXCEPT !.st = "reaped", !.status = "exited", !.pc = "join_out"]
       \/ /\ pp.st = "running"
          /\ pp' = [pp EXCEPT !.pc = "kill"]
    /\ UNCHANGED <<serverVars, gateVars, ex, tr, fs, cm, lc, ds>>

\* Lines 166-168: child.kill(), child.wait(), Err(RunnerError::Timeout).
PipeKill ==
    /\ pp.pc \in {"kill", "reap"}
    /\ pp' = IF pp.pc = "kill"
             THEN [pp EXCEPT !.st = kill(pp).st, !.pc = "reap"]
             ELSE [pp EXCEPT !.st = "reaped", !.pc = "timed_out"]
    /\ UNCHANGED <<serverVars, gateVars, ex, tr, fs, cm, lc, ds>>

\* Lines 172-179: stdout_task.await, then stderr_task.await.
PipeJoin ==
    /\ \/ /\ pp.pc = "join_out"
          /\ is_finished(pp.task.stdout)
          /\ pp' = [pp EXCEPT !.result.stdout = pp.buf.stdout, !.pc = "join_err"]
       \/ /\ pp.pc = "join_err"
          /\ is_finished(pp.task.stderr)
          /\ pp' = [pp EXCEPT !.result.stderr = pp.buf.stderr, !.pc = "returned"]
    /\ UNCHANGED <<serverVars, gateVars, ex, tr, fs, cm, lc, ds>>

PipeInit ==
    /\ ServerIdle
    /\ q1 = NoQuery
    /\ q2 = NoQuery
    /\ ex = NoCall
    /\ tr = NoCall
    /\ fs = NoCall
    /\ cm = NoCall
    /\ lc = NoCall
    /\ ds = NoCall
    /\ pp \in {Spawned(script) : script \in Scripts}

PipeNext ==
    \/ ChildWrites
    \/ ChildDone
    \/ \E name \in {"stdout", "stderr"} : ReaderReads(name)
    \/ PipeWait
    \/ PipeKill
    \/ PipeJoin

PipeSpec == PipeInit /\ [][PipeNext]_vars

\* The child is run by the system and the tasks by the runtime: each goes on
\* when it can. The timer of the timeout is not bound to fire, and the wait
\* returns once the child has exited.
FairPipeSpec ==
    /\ PipeSpec
    /\ WF_vars(ChildWrites)
    /\ WF_vars(ChildDone)
    /\ WF_vars(ReaderReads("stdout"))
    /\ WF_vars(ReaderReads("stderr"))
    /\ WF_vars(PipeWait /\ pp.st = "exited")
    /\ WF_vars(PipeKill)
    /\ WF_vars(PipeJoin)

----------------------------------------------------------------------------
(* handler.rs: the NormalizedSymbol of resolve_normalized_symbol *)

override_item_name_ignored(identity, symbol_name) == identity

\* Lines 1337-1340: `if let Some(name) = symbol_name { identity.item_name = name; }`
override_item_name(identity, symbol_name) ==
    IF symbol_name.some THEN [identity EXCEPT !.item_name = symbol_name.v] ELSE identity

\* Lines 1337-1347, after the check of the kind: the name is overridden, the
\* symbol built from the identity, and the target attached.
normalized_symbol(identity, symbol_name, target) ==
    LET normalized == from_identity(override_item_name(identity, symbol_name))
    IN  IF target.some THEN with_target(normalized, target.v) ELSE normalized

\* The identities the language server resolves a position to, the names a
\* caller gives, and the targets.
ResolvedIdentities ==
    [crate_name : {"demo"}, module_path : {<<>>, <<"utils">>, <<"utils", "inner">>},
     item_name : {"do_thing", "a_much_longer_name"}, kind : {"FreeFunction", "Method"}]

GivenNames == {None, Some("renamed"), Some("x"), Some("do_thing")}

NormalizeCalls ==
    [fn : {"resolve_normalized_symbol"}, identity : ResolvedIdentities,
     symbol_name : GivenNames, target : {None, Some(RequestedTarget)},
     done : {FALSE}, symbol : {NoSymbol}]

Normalize ==
    /\ ex.fn = "resolve_normalized_symbol" /\ ~ex.done
    /\ ex' = [ex EXCEPT !.done = TRUE,
                        !.symbol = normalized_symbol(ex.identity, ex.symbol_name, ex.target)]
    /\ UNCHANGED <<serverVars, gateVars, tr, fs, moreVars>>

NormalizeInit ==
    /\ ServerIdle
    /\ q1 = NoQuery
    /\ q2 = NoQuery
    /\ ex \in NormalizeCalls
    /\ tr = NoCall
    /\ fs = NoCall
    /\ MoreIdle

NormalizeNext == Normalize

NormalizeSpec == NormalizeInit /\ [][NormalizeNext]_vars

----------------------------------------------------------------------------
(* Properties *)

\* The call p is inside its compiler run: from the spawn of the compiler to
\* the end of the post-run scan and of the artifact reads.
InCompilerRun(p) ==
    pc[p] \in {"wait", "kill", "reap", "join_out", "join_err", "scan_after", "read_art"}

\* The call p has returned the error `reason`.
Failed(p, reason) == pc[p] = "ret" /\ res[p].kind = "err" /\ res[p].reason = reason

\* C1: of the concurrent inspections of one workspace, at most one is inside
\* its compiler run at any time.
C1_CompilerRunsNeverOverlap ==
    \A p, q \in Procs : p # q /\ InCompilerRun(p) => ~InCompilerRun(q)

\* One inspection is inside its compiler run while another, which also
\* compiles, waits for the workspace lock.
C1_Witness ==
    \E p, q \in Procs :
       /\ p # q
       /\ InCompilerRun(p)
       /\ pc[q] = "lock_ws"
       /\ ctx[q].view.name \in {"asm", "mir"}

\* C2: when an inspection that acquired the workspace lock ends, with a result
\* or with any error, it holds the lock no longer.
C2_LockReleasedOnEveryExit ==
    \A p \in Procs :
       pc[p] = "ret" /\ "lock" \in did[p] => wsLock # p

\* An inspection that took the lock has ended with an extraction error.
C2_Witness ==
    \E p \in Procs :
       /\ "lock" \in did[p]
       /\ Failed(p, "extract_ambiguous")
       /\ lock_ready(wsLock)

\* C4: once the timeout has fired, run has produced no RunResult; at the second
\* child.wait() the child has been killed or has exited; and the call ends with
\* the Timeout error of the configured duration, without a RunResult, the child
\* reaped.
C4_TimeoutKillsAndReaps ==
    \A p \in Procs :
       /\ pc[p] \in {"kill", "reap"} => "timeout" \in did[p] /\ run[p].result = "none"
       /\ pc[p] = "reap" => child[p].st # "running"
       /\ pc[p] = "ret" /\ "timeout" \in did[p] =>
             /\ Failed(p, "timeout")
             /\ res[p].data.timeout_seconds = DEFAULT_TIMEOUT_SECONDS
             /\ res[p].data.run_result = "none"
             /\ run[p].status = "none" /\ run[p].result = "none"
             /\ child[p].st = "reaped"
       /\ Failed(p, "timeout") => "timeout" \in did[p]

\* A call has returned the Timeout error, its child killed.
C4_Witness ==
    \E p \in Procs : Failed(p, "timeout") /\ child[p].status = "killed"

\* C3: every inspection eventually returns a result or an error, whatever the
\* language server does.
C3_EveryInspectionReturns ==
    \A p \in Procs : (pc[p] # "idle") ~> (pc[p] = "ret")

\* The gating rules as the specification words them.
NightlyLike(c) == c \in {"Nightly", "Dev"}
AdvertisedByRule(view, c, g) == ~view.requires_nightly \/ NightlyLike(c) \/ g = "Lenient"
RunnableByRule(view, c) == ~view.requires_nightly \/ NightlyLike(c)

\* C5: is_view_advertised answers true exactly when the view does not require
\* nightly, or the channel is Nightly or Dev, or the gating mode is Lenient.
C5_AdvertisedExactly ==
    \A q \in {q1, q2} :
       q.answered => (q.advertised <=> AdvertisedByRule(q.view, q.channel, q.gating))

\* The nightly-only view was asked about on Stable under Lenient, and is advertised.
C5_Witness ==
    /\ q1.answered
    /\ q1.view.name = "mir" /\ q1.channel = "Stable" /\ q1.gating = "Lenient"
    /\ q1.advertised

\* The call p is an inspection of a curated view.
Inspecting(p) == pc[p] # "idle" /\ ctx[p].tool \in InspectTools /\ ctx[p].view # NoView

\* The call p has returned the soft-fail result.
SoftFailed(p) ==
    /\ pc[p] = "ret"
    /\ res[p].kind = "ok"
    /\ res[p].text = ""
    /\ res[p].symbol = "none"

\* C6: an inspection of an advertised view goes on to run exactly when the view
\* does not require nightly or the channel is Nightly or Dev, whatever the
\* gating mode; for a nightly-only view off nightly it starts no compiler.
C6_RunnableExactly ==
    \A p \in Procs :
       Inspecting(p) /\ ~Failed(p, "not_available") =>
          /\ ~SoftFailed(p) <=> RunnableByRule(ctx[p].view, channel)
          /\ ~RunnableByRule(ctx[p].view, channel) => "rustc" \notin did[p]

\* mir was inspected on Stable under Lenient: advertised, but not run.
C6_Witness ==
    \E p \in Procs :
       /\ Inspecting(p)
       /\ ctx[p].view.name = "mir" /\ channel = "Stable" /\ ctx[p].gating = "Lenient"
       /\ SoftFailed(p)

\* C7: a view advertised under Strict is advertised under Lenient on the same
\* channel, and a view runnable on Stable is runnable on Nightly.
C7_GatingMonotone ==
    q1.answered /\ q2.answered /\ q1.view = q2.view =>
       /\ q1.channel = q2.channel /\ q1.gating = "Strict" /\ q2.gating = "Lenient"
             /\ q1.advertised => q2.advertised
       /\ q1.channel = "Stable" /\ q2.channel = "Nightly" /\ q1.runnable => q2.runnable

\* The same view asked about under Strict and under Lenient, and on Stable and
\* on Nightly: advertised and runnable each time.
C7_Witness ==
    /\ q1.answered /\ q2.answered /\ q1.view = q2.view
    /\ q1.channel = "Stable" /\ q2.channel = "Nightly"
    /\ q1.gating = "Strict" /\ q2.gating = "Lenient"
    /\ q1.advertised /\ q2.advertised /\ q1.runnable /\ q2.runnable

\* The call p has returned from the capabilities tool.
Listed(p) == pc[p] = "ret" /\ res[p].kind = "caps"

\* C8: capabilities lists exactly the advertised curated views, in curated
\* order, with one "requires nightly" diagnostic for exactly the views that are
\* advertised but not runnable; on Stable that is def, types, llvm-ir, asm and
\* no diagnostic under Strict, and mir with its diagnostic besides under Lenient.
C8_CapabilitiesListsAdvertised ==
    \A p \in Procs :
       Listed(p) =>
          LET g == res[p].gating_mode
              Advertised(view) == AdvertisedByRule(view, channel, g)
              SoftFails(view) == Advertised(view) /\ ~RunnableByRule(view, channel)
          IN /\ g = ctx[p].gating
             /\ res[p].views = MapNames(SelectSeq(curated, Advertised))
             /\ res[p].diagnostics = MapNotes(SelectSeq(curated, SoftFails))
             /\ channel = "Stable" /\ g = "Strict" =>
                   /\ res[p].views = <<"def", "types", "llvm-ir", "asm">>
                   /\ res[p].diagnostics = <<>>
             /\ channel = "Stable" /\ g = "Lenient" =>
                   /\ res[p].views = <<"def", "types", "llvm-ir", "asm", "mir">>
                   /\ res[p].diagnostics = <<"View 'mir' requires nightly">>

\* capabilities has answered on Stable under Lenient, with a diagnostic.
C8_Witness ==
    \E p \in Procs :
       /\ Listed(p)
       /\ channel = "Stable" /\ res[p].gating_mode = "Lenient"
       /\ Len(res[p].diagnostics) = 1

\* C9: an inspection of an unknown view, or of a view that is not advertised,
\* fails with INVALID_PARAMS, having neither taken the workspace lock nor
\* sent a language-server request nor spawned a compiler.
C9_RejectedBeforeAnyWork ==
    \A p \in Procs :
       /\ pc[p] # "idle" /\ ctx[p].tool \in InspectTools
       /\ \/ ctx[p].name = "hir"
          \/ ~AdvertisedByRule(ctx[p].view, channel, ctx[p].gating)
       => /\ pc[p] = "ret"
          /\ res[p].kind = "err"
          /\ res[p].code = "INVALID_PARAMS"
          /\ res[p].reason = IF ctx[p].name = "hir" THEN "unknown_view" ELSE "not_available"
          /\ did[p] = {}
          /\ wsLock # p /\ anaLock # p
          /\ child[p] = NoChild

\* mir was refused on Stable under Strict.
C9_Witness ==
    \E p \in Procs :
       /\ Failed(p, "not_available")
       /\ ctx[p].view.name = "mir" /\ channel = "Stable" /\ ctx[p].gating = "Strict"

\* C10: an inspection of a view that is advertised but not runnable returns a
\* result with empty text, not truncated, without a symbol, with exactly one
\* diagnostic (the view requires nightly) and a provenance that is not
\* workspace-locked; it takes no lock, sends no language-server request and
\* spawns no compiler.
C10_SoftFailTouchesNothing ==
    \A p \in Procs :
       /\ Inspecting(p)
       /\ AdvertisedByRule(ctx[p].view, channel, ctx[p].gating)
       /\ ~RunnableByRule(ctx[p].view, channel)
       => /\ pc[p] = "ret"
          /\ res[p].kind = "ok"
          /\ res[p].view = ctx[p].view.name
          /\ res[p].text = ""
          /\ res[p].truncated = FALSE
          /\ res[p].symbol = "none"
          /\ res[p].diagnostics =
                <<"View " \o ctx[p].view.name
                     \o " requires a nightly toolchain (detected " \o channel \o ")">>
          /\ res[p].provenance.workspace_locked = FALSE
          /\ res[p].provenance.command = None
          /\ did[p] = {}
          /\ wsLock # p /\ anaLock # p
          /\ child[p] = NoChild

\* inspect_mir has soft-failed on Stable, the server's gating being Lenient.
C10_Witness ==
    \E p \in Procs :
       /\ SoftFailed(p)
       /\ ctx[p].tool = "inspect_mir"
       /\ channel = "Stable"
       /\ res[p].provenance.gating_mode = "Lenient"

----------------------------------------------------------------------------
(* Properties of the extractors *)

\* The (header, content) pairs an extractor call chooses among.
BlocksOf(call) ==
    CASE call.fn = "extract_mir" ->
            LET bs == Concat([i \in 1..Len(call.outputs) |-> split_mir_blocks(call.outputs[i])])
            IN [i \in 1..Len(bs) |-> <<block_header(bs[i]), bs[i]>>]
      [] call.fn = "extract_llvm_ir" ->
            Concat([i \in 1..Len(call.outputs) |-> split_llvm_blocks(call.outputs[i])])
      [] call.fn = "extract_asm" ->
            Concat([i \in 1..2 |->
                       IF call.targets[i] = call.target_triple
                       THEN split_asm_blocks(call.outputs[i]) ELSE <<>>])

\* The tiers as the specification words them: whether the block hb matches
\* the symbol at tier t. MIR has the tiers 1 (def-name) and 2 (item name);
\* LLVM IR and assembly have 1 (exact mangled name in the header), 2 (mangled
\* prefix in the header) and 3 (def-name in the block; for assembly the item
\* name too).
MatchesAt(call, hb, t) ==
    LET symbol == call.symbol
    IN CASE call.fn = "extract_mir" ->
               \/ t = 1 /\ contains(hb[2], symbol.def_name)
               \/ t = 2 /\ contains(hb[2], symbol.item_name)
         [] call.fn = "extract_llvm_ir" ->
               \/ t = 1 /\ symbol.mangled.some /\ contains(hb[1], symbol.mangled.v)
               \/ t = 2 /\ contains(hb[1], symbol.mangled_prefix)
               \/ t = 3 /\ contains(hb[2], symbol.def_name)
         [] call.fn = "extract_asm" ->
               \/ t = 1 /\ symbol.mangled.some /\ contains(hb[1], symbol.mangled.v)
               \/ t = 2 /\ contains(hb[1], symbol.mangled_prefix)
               \/ t = 3 /\ \/ contains(hb[2], symbol.def_name)
                           \/ contains(hb[2], symbol.item_name)

Tiers == 1..3

\* The blocks that match at tier t, in order.
TierBlocks(call, t) == SelectSeq(BlocksOf(call), LAMBDA hb : MatchesAt(call, hb, t))

\* The first tier some block matches at, 0 when no block matches at any.
FirstTier(call) ==
    IF \E t \in Tiers : TierBlocks(call, t) # <<>>
    THEN CHOOSE t \in Tiers :
            TierBlocks(call, t) # <<>> /\ \A u \in 1..(t - 1) : TierBlocks(call, u) = <<>>
    ELSE 0

\* extract_asm found no assembly of the target asked for.
NoTarget(call) ==
    call.fn = "extract_asm" /\ \A i \in 1..2 : call.targets[i] # call.target_triple

\* C11: the candidates of the first non-empty tier decide the result of every
\* extractor: one candidate is returned, none in any tier is the not-found
\* error (for extract_asm without an assembly of the target, the error that
\* says so), several are the ambiguity error that lists them, never the first
\* of them.
C11_FirstTierDecides ==
    ex.done =>
       LET t == FirstTier(ex)
           candidates == IF t = 0 THEN <<>> ELSE TierBlocks(ex, t)
       IN /\ Len(candidates) = 1 => ex.result = Ok(candidates[1][2])
          /\ Len(candidates) = 0 =>
                /\ ex.result.kind = "err"
                /\ ex.result.error = IF NoTarget(ex) THEN "no_target" ELSE "no_match"
          /\ Len(candidates) > 1 =>
                /\ ex.result.kind = "err"
                /\ ex.result.error = "multiple"
                /\ ex.result.names = [i \in 1..Len(candidates) |-> candidates[i][1]]

\* extract_llvm_ir met two defines that match by prefix, and reported them.
C11_Witness ==
    /\ ex.fn = "extract_llvm_ir" /\ ex.done
    /\ FirstTier(ex) = 2
    /\ Len(TierBlocks(ex, 2)) = 2
    /\ ex.result.kind = "err" /\ ex.result.error = "multiple"

\* C12: once a block matches at a tier, the blocks that match only at lower
\* tiers are neither returned nor listed as ambiguous, however many they are;
\* a single match at the first tier is returned.
C12_TierExclusive ==
    ex.done /\ FirstTier(ex) # 0 =>
       LET top == TierBlocks(ex, FirstTier(ex))
           lower == SelectSeq(BlocksOf(ex), LAMBDA hb : ~MatchesAt(ex, hb, FirstTier(ex)))
       IN /\ ex.result.kind = "ok" =>
                \A i \in 1..Len(lower) : ex.result.content # lower[i][2]
          /\ ex.result.kind = "err" =>
                /\ ex.result.error = "multiple"
                /\ Len(ex.result.names) = Len(top)
                /\ \A i \in 1..Len(ex.result.names) : ex.result.names[i] = top[i][1]
          /\ Len(top) = 1 => ex.result = Ok(top[1][2])

\* extract_asm returned the one block with the exact name although two more
\* blocks match by prefix.
C12_Witness ==
    /\ ex.fn = "extract_asm" /\ ex.done
    /\ Len(TierBlocks(ex, 1)) = 1
    /\ Len(SelectSeq(BlocksOf(ex), LAMBDA hb : ~MatchesAt(ex, hb, 1) /\ MatchesAt(ex, hb, 2))) >= 2
    /\ ex.result = Ok(TierBlocks(ex, 1)[1][2])

\* The call carries an exact mangled name, and extracts LLVM IR or assembly.
ExactKnown(call) == call.fn \in {"extract_llvm_ir", "extract_asm"} /\ call.symbol.mangled.some

\* C13 as stated: when the exact mangled name is known and some header
\* contains it, the extractor returns a block whose header contains it.
C13_ExactMatchReturned ==
    ex.done /\ ExactKnown(ex) /\ TierBlocks(ex, 1) # <<>> =>
       /\ ex.result.kind = "ok"
       /\ \E i \in 1..Len(TierBlocks(ex, 1)) : ex.result.content = TierBlocks(ex, 1)[i][2]

\* C13: when the exact mangled name is known and exactly one header contains
\* it, the extractor returns the block of that header, not a sibling whose
\* header only shares the prefix; when several headers contain it, the result
\* is the ambiguity error.
C13_UniqueExactMatchReturned ==
    ex.done /\ ExactKnown(ex) =>
       LET exact == TierBlocks(ex, 1)
       IN /\ Len(exact) = 1 => ex.result = Ok(exact[1][2])
          /\ Len(exact) > 1 => ex.result.kind = "err" /\ ex.result.error = "multiple"

\* One header contains the exact name, another one only the prefix, and the
\* block of the first is returned.
C13_Witness ==
    /\ ex.done /\ ExactKnown(ex)
    /\ Len(TierBlocks(ex, 1)) = 1
    /\ \E i \in 1..Len(BlocksOf(ex)) :
          /\ ~MatchesAt(ex, BlocksOf(ex)[i], 1)
          /\ MatchesAt(ex, BlocksOf(ex)[i], 2)
    /\ ex.result = Ok(TierBlocks(ex, 1)[1][2])

\* The indexes of the lines of ls that satisfy opens.
OpeningLines(ls, opens(_)) == {i \in 1..Len(ls) : opens(ls[i])}

\* The lines of ls from the opening line i up to, and without, the next
\* opening line, or up to the end.
LinesFrom(ls, opens(_), i) ==
    LET later == {j \in OpeningLines(ls, opens) : j > i}
        last == IF later = {} THEN Len(ls)
                ELSE (CHOOSE j \in later : \A k \in later : j <= k) - 1
    IN SubSeq(ls, i, last)

\* The (output, line) pairs of the MIR headers whose block contains def_name.
MirDefBlocks(call) ==
    {<<o, i>> \in (1..Len(call.outputs)) \X (1..12) :
        /\ i \in OpeningLines(lines(call.outputs[o]), is_mir_header)
        /\ contains(join(LinesFrom(lines(call.outputs[o]), is_mir_header, i), <<"\n">>),
                    call.symbol.def_name)}

\* C14: when exactly one MIR block contains def_name, extract_mir returns
\* that block: the lines from its header line up to, and without, the next
\* header line, and no line of another block.
C14_MirBlockExact ==
    ex.done /\ ex.fn = "extract_mir" =>
       \A oi \in MirDefBlocks(ex) :
          MirDefBlocks(ex) = {oi} =>
             ex.result = Ok(trim(join(LinesFrom(lines(ex.outputs[oi[1]]), is_mir_header, oi[2]),
                                      <<"\n">>)))

\* The block of do_thing is returned from an output in which another block
\* comes after it.
C14_Witness ==
    /\ ex.done /\ ex.fn = "extract_mir"
    /\ \E oi \in MirDefBlocks(ex) :
          /\ MirDefBlocks(ex) = {oi}
          /\ \E k \in OpeningLines(lines(ex.outputs[oi[1]]), is_mir_header) : oi[2] < k
          /\ ex.result.kind = "ok"
          /\ ex.result.content =
                trim(join(LinesFrom(lines(ex.outputs[oi[1]]), is_mir_header, oi[2]), <<"\n">>))

\* The (output, line) pairs of the define lines whose name contains the
\* mangled prefix of the symbol.
PrefixDefines(call) ==
    {<<o, i>> \in (1..Len(call.outputs)) \X (1..12) :
        /\ i \in OpeningLines(lines(call.outputs[o]), is_define)
        /\ extract_llvm_symbol_name(lines(call.outputs[o])[i]).some
        /\ contains(extract_llvm_symbol_name(lines(call.outputs[o])[i]).v,
                    call.symbol.mangled_prefix)}

\* C15: for a symbol without an explicit mangled name, when the name of
\* exactly one define line contains the mangled prefix, extract_llvm_ir
\* returns the block of that define: its lines up to the next define or the
\* end of the output, not the block of a sibling.
C15_LlvmPrefixBlock ==
    ex.done /\ ex.fn = "extract_llvm_ir" /\ ~ex.symbol.mangled.some =>
       \A oi \in PrefixDefines(ex) :
          PrefixDefines(ex) = {oi} =>
             ex.result = Ok(join(LinesFrom(lines(ex.outputs[oi[1]]), is_define, oi[2]), <<"\n">>))

\* The define of do_thing is returned although a sibling's define stands in
\* the same output.
C15_Witness ==
    /\ ex.done /\ ex.fn = "extract_llvm_ir" /\ ~ex.symbol.mangled.some
    /\ \E oi \in PrefixDefines(ex) :
          /\ PrefixDefines(ex) = {oi}
          /\ Cardinality(OpeningLines(lines(ex.outputs[oi[1]]), is_define)) >= 2
          /\ ex.result.kind = "ok"
          /\ ex.result.content =
                join(LinesFrom(lines(ex.outputs[oi[1]]), is_define, oi[2]), <<"\n">>)

\* The contents of the blocks of the i-th assembly of a call.
AsmContents(call, i) ==
    {split_asm_blocks(call.outputs[i])[k][2] : k \in 1..Len(split_asm_blocks(call.outputs[i]))}

\* C16: extract_asm looks only into the assemblies of the requested target:
\* what it returns is a block of one of them, and without one the result is
\* the error that no assembly of the target is available, whatever the
\* assemblies of other targets contain.
C16_AsmTargetOnly ==
    ex.done /\ ex.fn = "extract_asm" =>
       /\ NoTarget(ex) => ex.result.kind = "err" /\ ex.result.error = "no_target"
       /\ ex.result.kind = "ok" =>
             \E i \in 1..2 : /\ ex.targets[i] = ex.target_triple
                             /\ ex.result.content \in AsmContents(ex, i)
       /\ ex.result.kind = "err" /\ ex.result.error = "multiple" =>
             Len(ex.result.names) = Len(BlocksOf(ex))
                                    - Len(SelectSeq(BlocksOf(ex), LAMBDA hb :
                                             \A t \in Tiers : ~MatchesAt(ex, hb, t)))
                                    - Len(SelectSeq(BlocksOf(ex), LAMBDA hb :
                                             /\ \E t \in Tiers : MatchesAt(ex, hb, t)
                                             /\ ~MatchesAt(ex, hb, FirstTier(ex))))

\* No assembly is of the requested target, one of another target has a label
\* with the exact mangled name, and the result is the error.
C16_Witness ==
    /\ ex.done /\ ex.fn = "extract_asm" /\ NoTarget(ex)
    /\ ex.symbol.mangled.some
    /\ \E i \in 1..2 : \E k \in 1..Len(split_asm_blocks(ex.outputs[i])) :
          contains(split_asm_blocks(ex.outputs[i])[k][1], ex.symbol.mangled.v)
    /\ ex.result.kind = "err" /\ ex.result.error = "no_target"

\* The segments of an identity, as strings.
SegmentsOf(identity) ==
    <<identity.crate_name>> \o identity.module_path \o <<identity.item_name>>

\* Each segment after its length in decimal digits.
RECURSIVE LengthPrefixed(_)
LengthPrefixed(segments) ==
    IF segments = <<>> THEN ""
    ELSE ToString(Len(Head(segments))) \o Head(segments) \o LengthPrefixed(Tail(segments))

\* The segments with "::" between them.
RECURSIVE PathOf(_)
PathOf(segments) ==
    IF Len(segments) = 1 THEN Head(segments)
    ELSE Head(segments) \o "::" \o PathOf(Tail(segments))

\* C17: the mangled prefix of from_identity is "_ZN" followed, for the crate,
\* each module and the item in this order, by the decimal length of the
\* segment and the segment; def_name is the segments joined by "::".
C17_MangledPrefixEncoding ==
    ex.done =>
       /\ Str(ex.symbol.mangled_prefix) = "_ZN" \o LengthPrefixed(SegmentsOf(ex.identity))
       /\ Str(ex.symbol.def_name) = PathOf(SegmentsOf(ex.identity))

\* The symbol of demo::utils::a_much_longer_name, whose item has a length of
\* two digits.
C17_Witness ==
    /\ ex.done
    /\ ex.identity.module_path = <<"utils">>
    /\ ex.identity.item_name = "a_much_longer_name"
    /\ Str(ex.symbol.mangled_prefix) = "_ZN4demo5utils18a_much_longer_name"
    /\ Str(ex.symbol.def_name) = "demo::utils::a_much_longer_name"

----------------------------------------------------------------------------
(* Properties of truncate_with_limits *)

\* The number of bytes of a text: the length of the string itself.
ByteCount(text) == Len(Str(text))

\* The number of lines of a text: one per line feed, and one more for what
\* follows the last line feed.
LineCount(text) ==
    Cardinality({i \in 1..Len(text) : text[i] = "\n"})
       + (IF text # <<>> /\ text[Len(text)] # "\n" THEN 1 ELSE 0)

\* The text of the call is within both limits.
WithinLimits ==
    /\ ByteCount(tr.text) <= tr.limits.max_output_bytes
    /\ LineCount(tr.text) <= tr.limits.max_output_lines

\* C18: a text of at most max_output_bytes bytes and at most max_output_lines
\* lines is returned unchanged, with truncated = false and without a summary.
C18_WithinLimitsUnchanged ==
    tr.done /\ WithinLimits =>
       /\ tr.result.text = tr.text
       /\ tr.result.truncated = FALSE
       /\ tr.result.summary = None

\* A text that has exactly as many bytes and lines as the limits allow came
\* back unchanged.
C18_Witness ==
    /\ tr.done
    /\ tr.text # <<>>
    /\ ByteCount(tr.text) = tr.limits.max_output_bytes
    /\ LineCount(tr.text) = tr.limits.max_output_lines
    /\ tr.result.text = tr.text
    /\ ~tr.result.truncated

\* C19: a text that exceeds max_output_bytes or max_output_lines comes back
\* with truncated = true, ends with the marker line, which follows a line
\* feed and tells the counts of the summary, and the summary has
\* kept_lines <= max_lines and kept_bytes <= max_bytes.
C19_TruncatedWithinLimits ==
    tr.done /\ ~WithinLimits =>
       /\ tr.result.truncated = TRUE
       /\ tr.result.summary.some
       /\ LET summary == tr.result.summary.v
              out == tr.result.text
              last == lines(out)[Len(lines(out))]
          IN /\ summary.kept_lines <= summary.max_lines
             /\ summary.kept_bytes <= summary.max_bytes
             /\ summary.max_lines = tr.limits.max_output_lines
             /\ summary.max_bytes = tr.limits.max_output_bytes
             /\ Len(out) > Len(last) /\ out[Len(out) - Len(last)] = "\n"
             /\ Str(last) = "[truncated after " \o ToString(summary.kept_lines) \o " lines/"
                               \o ToString(summary.kept_bytes) \o " bytes; original "
                               \o ToString(LineCount(tr.text)) \o " lines/"
                               \o ToString(ByteCount(tr.text)) \o " bytes; limits "
                               \o ToString(summary.max_lines) \o " lines/"
                               \o ToString(summary.max_bytes) \o " bytes]"
             /\ ByteCount(out) - ByteCount(<<"\n">> \o last) = summary.kept_bytes

\* A text within the byte limit but of too many lines was cut after its
\* first lines.
C19_Witness ==
    /\ tr.done
    /\ ByteCount(tr.text) <= tr.limits.max_output_bytes
    /\ LineCount(tr.text) > tr.limits.max_output_lines
    /\ tr.result.truncated
    /\ tr.result.summary.some
    /\ tr.result.summary.v.kept_lines >= 1
    /\ tr.result.summary.v.kept_lines < LineCount(tr.text)

\* The lines of the text of the call.
OriginalLines == lines(tr.text)

\* The bytes of the first k lines, each with its line feed.
RECURSIVE PrefixBytes(_)
PrefixBytes(k) ==
    IF k = 0 THEN 0 ELSE PrefixBytes(k - 1) + ByteCount(OriginalLines[k]) + 1

\* The first k lines are within both limits.
Admissible(k) ==
    k <= tr.limits.max_output_lines /\ PrefixBytes(k) <= tr.limits.max_output_bytes

\* The length of the longest prefix of the lines that is within both limits.
LongestPrefix ==
    CHOOSE k \in 0..Len(OriginalLines) :
       Admissible(k) /\ \A j \in (k + 1)..Len(OriginalLines) : ~Admissible(j)

\* The first k lines, each followed by a line feed.
RECURSIVE PrefixText(_)
PrefixText(k) ==
    IF k = 0 THEN <<>> ELSE PrefixText(k - 1) \o OriginalLines[k] \o <<"\n">>

\* C33: when the text is truncated, the lines kept are the longest prefix of
\* the lines of the text with at most max_output_lines lines and at most
\* max_output_bytes bytes, a line counting for its length plus one;
\* kept_bytes is that count and the length of the returned text before the
\* marker; no line after the first one that breaches a limit is kept.
C33_LongestPrefixKept ==
    tr.done /\ tr.result.truncated =>
       LET summary == tr.result.summary.v
           kept == PrefixText(LongestPrefix)
       IN  /\ summary.kept_lines = LongestPrefix
           /\ summary.kept_bytes = PrefixBytes(LongestPrefix)
           /\ summary.kept_bytes = ByteCount(kept)
           /\ tr.result.text = kept \o marker(summary)
           /\ LongestPrefix < Len(OriginalLines) => ~Admissible(LongestPrefix + 1)

\* A text was cut after its first line at a line too long for the byte
\* limit, and the short line after that one was not kept.
C33_Witness ==
    /\ tr.done /\ tr.result.truncated
    /\ tr.result.summary.v.kept_lines = 1
    /\ Len(OriginalLines) = 3
    /\ tr.limits.max_output_lines = 3
    /\ PrefixBytes(1) + ByteCount(OriginalLines[3]) + 1 <= tr.limits.max_output_bytes

\* The returned text without the marker that ends it when it was truncated.
BeforeMarker ==
    IF tr.result.truncated
    THEN SubSeq(tr.result.text, 1,
                Len(tr.result.text) - Len(marker(tr.result.summary.v)))
    ELSE tr.result.text

\* C36 as stated: the text truncate_with_limits returns, which is the text
\* of the InspectionResult, has at most max_output_bytes bytes and at most
\* max_output_lines lines, the marker counted.
C36_TextWithinLimits ==
    tr.done =>
       /\ ByteCount(tr.result.text) <= tr.limits.max_output_bytes
       /\ LineCount(tr.result.text) <= tr.limits.max_output_lines

\* C36, amended: the returned text without the marker has at most
\* max_output_bytes bytes and at most max_output_lines lines. The marker, a
\* line feed and one line, comes on top of that: a truncated text has up to
\* two lines and the bytes of the marker more than the limits.
C36_KeptTextWithinLimits ==
    tr.done =>
       /\ ByteCount(BeforeMarker) <= tr.limits.max_output_bytes
       /\ LineCount(BeforeMarker) <= tr.limits.max_output_lines
       /\ tr.result.truncated =>
             /\ tr.result.text = BeforeMarker \o marker(tr.result.summary.v)
             /\ LineCount(tr.result.text) = LineCount(BeforeMarker) + 2

\* A text of too many lines was cut to as many lines as the limit allows,
\* and with the marker it has more lines and more bytes than the limits.
C36_Witness ==
    /\ tr.done /\ tr.result.truncated
    /\ tr.limits.max_output_lines >= 1
    /\ LineCount(BeforeMarker) = tr.limits.max_output_lines
    /\ LineCount(tr.result.text) > tr.limits.max_output_lines
    /\ ByteCount(tr.result.text) > tr.limits.max_output_bytes

----------------------------------------------------------------------------
(* Properties of the artifacts of a run *)

\* The paths of RunResult.artifacts.
ArtifactPaths == {fs.artifacts[i] : i \in 1..Len(fs.artifacts)}

\* The path is the file rel of the target directory.
IsFileOfTarget(path, rel) ==
    /\ Len(path) = Len(target_dir) + Len(rel)
    /\ \A i \in 1..Len(target_dir) : path[i] = target_dir[i]
    /\ \A i \in 1..Len(rel) : path[Len(target_dir) + i] = rel[i]

\* C20: after a run that returns a RunResult, every path of its artifacts is
\* a file the scan after the run found under the target directory and the
\* snapshot before the run did not hold, and every file the scan after the
\* run found that the snapshot did not hold is among the artifacts.
C20_ArtifactsAreNewFiles ==
    fs.fn = "run" /\ fs.phase = "returned" =>
       /\ \A path \in ArtifactPaths :
             \E rel \in fs.after : rel \notin fs.before /\ IsFileOfTarget(path, rel)
       /\ \A rel \in fs.after :
             rel \notin fs.before => \E path \in ArtifactPaths : IsFileOfTarget(path, rel)

\* A run whose snapshot held a file that is still there, and whose compiler
\* wrote two more: the artifacts are the two.
C20_Witness ==
    /\ fs.fn = "run" /\ fs.phase = "returned"
    /\ fs.before \cap fs.after # {}
    /\ Cardinality(fs.after \ fs.before) = 2
    /\ Len(fs.artifacts) = 2

\* What a scan that failed leaves: an empty set of files, and a RunResult
\* whose artifacts are every file found afterwards or none.
ScanFailureAbsorbed ==
    fs.fn = "run" =>
       /\ fs.scan_before = "failed" => fs.before = {}
       /\ fs.scan_after = "failed" => fs.after = {}
       /\ fs.phase = "returned" /\ fs.scan_after = "failed" => fs.artifacts = <<>>
       /\ fs.phase = "returned" /\ fs.scan_before = "failed" =>
             \A rel \in fs.after : \E path \in ArtifactPaths : IsFileOfTarget(path, rel)

\* The step of run that scans goes on to the next step of run.
ScanStepContinues ==
    fs.fn = "run" =>
       /\ fs.phase = "start" => fs'.phase = "spawned"
       /\ fs.phase = "spawned" /\ fs'.scan_after # "none" => fs'.phase = "scanned"

\* C35: a scan of the target directory that fails never ends the run with an
\* error: the run goes on to its next step. A scan before the compiler that
\* failed leaves an empty snapshot, and every file the scan after the run
\* found is then among the artifacts; a scan after the compiler that failed
\* leaves no artifacts.
C35_ScanFailureNotFatal == []ScanFailureAbsorbed /\ [][ScanStepContinues]_vars

\* A run whose scan before the compiler failed over two files that were
\* there, and whose scan afterwards read them: both are among the artifacts.
C35_Witness ==
    /\ fs.fn = "run" /\ fs.phase = "returned"
    /\ fs.scan_before = "failed" /\ fs.scan_after = "ok"
    /\ Cardinality(fs.existed) = 2
    /\ fs.existed \subseteq ArtifactPaths

\* Every scan of the runs so far read every directory, and no file of the
\* target directory was deleted.
ScansSucceedNothingDeleted ==
    /\ fs.scan_before = "ok"
    /\ fs.phase \in {"scanned", "returned"} => fs.scan_after = "ok"
    /\ \A i \in 1..Len(fs.past) : fs.past[i].scans_ok
    /\ ~fs.removed

\* C39: over the runs against one target directory whose scans all succeeded
\* and between which no file was deleted, the artifacts of a run hold no file
\* that was there before that run, rewritten or not, a run that wrote only
\* files that were there has no artifacts, and no path is among the artifacts
\* of two runs.
C39_AttributedOnce ==
    fs.fn = "run" /\ fs.phase = "returned" /\ ScansSucceedNothingDeleted =>
       /\ fs.existed \cap ArtifactPaths = {}
       /\ fs.disk = fs.existed => fs.artifacts = <<>>
       /\ \A i \in 1..Len(fs.past) : fs.past[i].artifacts \cap ArtifactPaths = {}
       /\ \A i, j \in 1..Len(fs.past) :
             i # j => fs.past[i].artifacts \cap fs.past[j].artifacts = {}

\* The second run rewrote a file that was among the artifacts of the first
\* and wrote no other: it has no artifacts.
C39_Witness ==
    /\ fs.fn = "run" /\ fs.phase = "returned" /\ ScansSucceedNothingDeleted
    /\ Len(fs.past) = 1
    /\ fs.rewritten \cap fs.past[1].artifacts # {}
    /\ fs.disk = fs.existed
    /\ fs.artifacts = <<>>

----------------------------------------------------------------------------
(* Properties of the command of a run *)

\* The positions of "--" in the recorded command.
Separators == {i \in 1..Len(cm.command) : cm.command[i] = "--"}

\* What stands before the separator, and what stands behind it.
BeforeSeparator ==
    <<"cargo", "rustc", "--offline">>
       \o (IF cm.request.manifest_path.some
           THEN <<"--manifest-path", cm.request.manifest_path.v.os>> ELSE <<>>)
       \o (IF cm.request.package.some THEN <<"--package", cm.request.package.v>> ELSE <<>>)
       \o (IF cm.request.target_triple.some
           THEN <<"--target", cm.request.target_triple.v>> ELSE <<>>)

AfterSeparator ==
    (IF cm.request.opt_level.some THEN <<"-Copt-level=" \o cm.request.opt_level.v>> ELSE <<>>)
       \o (IF cm.request.emit.some THEN <<"--emit=" \o cm.request.emit.v>> ELSE <<>>)
       \o (IF cm.request.unpretty.some THEN <<"-Zunpretty=" \o cm.request.unpretty.v>> ELSE <<>>)
       \o cm.request.additional_rustc_args

\* The shape the command is to have.
CommandShape ==
    /\ Cardinality(Separators) = 1
    /\ \A i \in Separators :
          /\ SubSeq(cm.command, 1, i - 1) = BeforeSeparator
          /\ SubSeq(cm.command, i + 1, Len(cm.command)) = AfterSeparator
    /\ cm.command = <<cm.program>> \o cm.args

NoSeparatorAmong(args) == \A i \in 1..Len(args) : args[i] # "--"

\* C21 as stated: for every request without "--" among its additional
\* arguments the command has the shape.
C21_CommandShapeAlways ==
    cm.fn = "run" /\ cm.done /\ NoSeparatorAmong(cm.request.additional_rustc_args) =>
       CommandShape

\* The values of --manifest-path, --package and --target are not "--", and
\* the manifest path is valid UTF-8.
PlainValues ==
    /\ cm.request.manifest_path.some =>
          cm.request.manifest_path.v.utf8 /\ cm.request.manifest_path.v.os # "--"
    /\ cm.request.package.some => cm.request.package.v # "--"
    /\ cm.request.target_triple.some => cm.request.target_triple.v # "--"

\* C21: for every request without "--" among its additional arguments, whose
\* manifest path, package and target are not "--" and whose manifest path is
\* UTF-8, the command holds "--" exactly once, also without opt level, emit
\* and unpretty; --manifest-path, --package and --target stand before it;
\* -Copt-level, --emit, -Zunpretty (those requested, in this order) and the
\* additional arguments stand behind it; the recorded vector is the program
\* and the arguments of the spawned process, in their order.
C21_CommandShape ==
    /\ cm.fn = "run" /\ cm.done
    /\ NoSeparatorAmong(cm.request.additional_rustc_args)
    /\ PlainValues
    => CommandShape

\* A request with nothing to put behind the separator: the command ends
\* with it.
C21_Witness ==
    /\ cm.fn = "run" /\ cm.done
    /\ ~cm.request.opt_level.some /\ ~cm.request.emit.some /\ ~cm.request.unpretty.some
    /\ cm.request.additional_rustc_args = <<>>
    /\ cm.request.target_triple = [some |-> TRUE, v |-> "x86_64-unknown-linux-gnu"]
    /\ cm.command = <<"cargo", "rustc", "--offline", "--target",
                      "x86_64-unknown-linux-gnu", "--">>

----------------------------------------------------------------------------
(* Properties of the result of a compiler run *)

\* The runner of the call p has seen the compiler exit with a failure.
SawFailure(p) == run[p].status \notin {"none", "success"}

\* C22: when the compiler has exited with a non-zero status, the inspection
\* fails with INTERNAL_ERROR whose data carries the status, the stdout, the
\* stderr and the command of that run; no artifact is read and nothing is
\* extracted; the error is not the one of a timeout.
C22_CompilerFailureSurfaced ==
    \A p \in Procs :
       pc[p] = "ret" /\ SawFailure(p) =>
          /\ res[p].kind = "err"
          /\ res[p].code = "INTERNAL_ERROR"
          /\ res[p].reason = "compiler_failed"
          /\ res[p].data.run_result = [status |-> run[p].status, stdout |-> run[p].stdout,
                                       stderr |-> run[p].stderr, command |-> run[p].command]
          /\ run[p].stdout = child[p].written.stdout
          /\ run[p].stderr = child[p].written.stderr
          /\ "artifacts" \notin did[p] /\ "extract" \notin did[p]
          /\ res[p] # timeout_error(limits)
          /\ "timeout" \notin did[p]

\* A failed compile of an optimised build that wrote to both pipes has been
\* reported.
C22_Witness ==
    \E p \in Procs :
       /\ pc[p] = "ret" /\ SawFailure(p)
       /\ res[p].kind = "err"
       /\ res[p].data.run_result.stderr = "warning: unused"
       /\ res[p].data.run_result.stdout = "fn demo() {}"
       /\ res[p].data.run_result.command =
             <<"cargo", "rustc", "--offline", "--target", "x86_64-unknown-linux-gnu", "--",
               "-Copt-level=3", "--emit=asm">>

\* The views whose inspection runs the compiler.
CompilingViews == {"mir", "llvm-ir", "asm"}

\* The words of a command with a blank between them.
RECURSIVE Spaced(_)
Spaced(words) ==
    IF words = <<>> THEN ""
    ELSE IF Len(words) = 1 THEN words[1]
    ELSE words[1] \o " " \o Spaced(Tail(words))

\* C23: the provenance of every successful InspectionResult has
\* workspace_locked true exactly when the call had acquired the workspace
\* lock (false only for the soft-fail result), and has a command exactly when
\* the compiler was run for the call, which is so for the views mir, llvm-ir
\* and asm and not for def and types; the command is the command vector of
\* the run with blanks between its words.
C23_ProvenanceFaithful ==
    \A p \in Procs :
       pc[p] = "ret" /\ res[p].kind = "ok" =>
          /\ res[p].provenance.workspace_locked = ("lock" \in did[p])
          /\ ~res[p].provenance.workspace_locked =>
                res[p] = [kind |-> "ok", view |-> ctx[p].view.name, symbol |-> "none",
                          text |-> "", truncated |-> FALSE,
                          diagnostics |-> res[p].diagnostics,
                          provenance |-> res[p].provenance]
                /\ Len(res[p].diagnostics) = 1
          /\ res[p].provenance.command.some = ("rustc" \in did[p])
          /\ res[p].provenance.workspace_locked =>
                res[p].provenance.command.some = (ctx[p].view.name \in CompilingViews)
          /\ res[p].provenance.command.some =>
                res[p].provenance.command.v = Spaced(run[p].command)

\* An assembly inspection has returned its result with the command of its
\* run.
C23_Witness ==
    \E p \in Procs :
       /\ pc[p] = "ret" /\ res[p].kind = "ok"
       /\ ctx[p].view.name = "asm"
       /\ res[p].provenance.workspace_locked
       /\ res[p].provenance.command =
             [some |-> TRUE,
              v |-> "cargo rustc --offline --target x86_64-unknown-linux-gnu -- -Copt-level=3 --emit=asm"]

----------------------------------------------------------------------------
(* Properties of the client *)

\* The messages written on the server's stdin, in the order of the writes.
Wire == SelectSeq(lc.trace, LAMBDA e : e.ev = "write")

\* The requests among them.
WireRequests == SelectSeq(Wire, LAMBDA e : e.message.id.some)

\* The event i of the trace writes a request other than initialize.
WritesRequest(i) ==
    /\ lc.trace[i].ev = "write"
    /\ lc.trace[i].message.id.some
    /\ lc.trace[i].message.method # "initialize"

\* Before the event i the handshake is complete: initialize was written, its
\* response returned by read_response, and initialized written, in this
\* order.
HandshakeBefore(i) ==
    \E a, b, c \in 1..(i - 1) :
       /\ a < b /\ b < c
       /\ lc.trace[a].ev = "write" /\ lc.trace[a].message.method = "initialize"
       /\ lc.trace[b].ev = "read" /\ lc.trace[b].how = "returned"
       /\ lc.trace[b].frame.id = lc.trace[a].message.id
       /\ lc.trace[c].ev = "write"
       /\ lc.trace[c].message = [id |-> None, method |-> "initialized"]

C24_WitnessAfterHandshake ==
    \E i \in 1..Len(lc.trace) : WritesRequest(i) /\ HandshakeBefore(i)

\* C25 as stated: the requests a client sends have the ids 1, 2, 3, ... in
\* the order they are sent, so no two of them share an id; the notifications
\* have no id and take none.
C25_RequestIdsMonotonic ==
    /\ \A i \in 1..Len(WireRequests) : WireRequests[i].message.id = Some(i)
    /\ \A i \in 1..Len(Wire) :
          Wire[i].message.method = "initialized" <=> ~Wire[i].message.id.some
    /\ Len(WireRequests) <= lc.request_id

\* The ids of the requests written grow, and none is beyond the counter of
\* the client; the notifications have no id.
IdsGrow ==
    /\ \A i, j \in 1..Len(WireRequests) :
          i < j => WireRequests[i].message.id.v < WireRequests[j].message.id.v
    /\ \A i \in 1..Len(WireRequests) :
          /\ WireRequests[i].message.id.v >= 1
          /\ WireRequests[i].message.id.v <= lc.request_id
    /\ \A i \in 1..Len(Wire) :
          Wire[i].message.method = "initialized" <=> ~Wire[i].message.id.some

\* A step takes at most one id, the next one, and a request it writes has
\* that id; a step that writes a notification takes none.
IdsStepByOne ==
    /\ lc'.request_id \in {lc.request_id, lc.request_id + 1}
    /\ Len(WireRequests') > Len(WireRequests) =>
          /\ lc'.request_id = lc.request_id + 1
          /\ WireRequests'[Len(WireRequests')].message.id = Some(lc'.request_id)
    /\ Len(Wire') > Len(Wire) /\ Len(WireRequests') = Len(WireRequests) =>
          lc'.request_id = lc.request_id

\* C25, amended: the ids of the requests written grow strictly in the order
\* of the writes, so no two requests share an id; every request takes the
\* id after the one taken last, whether its write succeeds or fails, so the
\* ids written are 1, 2, 3, ... up to the first request whose write fails
\* and skip the id of that request; the notifications have no id and take
\* none.
C25_RequestIdsGrow == []IdsGrow /\ [][IdsStepByOne]_vars

\* Three requests have been sent, a notification between the first two.
C25_Witness ==
    /\ Len(WireRequests) = 3
    /\ Len(Wire) = 4
    /\ ~Wire[2].message.id.some
    /\ WireRequests[3].message.id = Some(3)

\* The frame the event i of the trace consumed had the id its read_response
\* was waiting for.
Awaited(i) == lc.trace[i].ev = "read" /\ lc.trace[i].frame.id = Some(lc.trace[i].expected)

\* C26: read_response(expected_id) returns the first frame of the server's
\* output whose id is expected_id and drops the frames before it, those
\* without an id and those with another id; however many of them come before
\* the response, the response is returned.
C26_ResponseReturned ==
    \A i \in 1..Len(lc.trace) :
       lc.trace[i].ev = "read" =>
          /\ Awaited(i) => lc.trace[i].how = "returned"
          /\ ~Awaited(i) => lc.trace[i].how \in {"discarded", "garbled"}

\* On a pipe that starts with a whole frame read_response has dropped two
\* frames and returned the response that came after them.
C26_WitnessWholeFrames ==
    \E i \in 3..Len(lc.trace) :
       /\ Awaited(i) /\ lc.trace[i].how = "returned"
       /\ lc.trace[i - 1].ev = "read" /\ lc.trace[i - 1].how = "discarded"
       /\ lc.trace[i - 2].ev = "read" /\ lc.trace[i - 2].how = "discarded"
       /\ lc.trace[i - 1].expected = lc.trace[i].expected
       /\ lc.trace[i - 2].expected = lc.trace[i].expected

\* The process the client holds has been through the handshake: since it
\* was spawned initialize was written, the response to it returned by
\* read_response, and initialized written, in this order.
HandshakeOfProcess ==
    \E a, b, c \in (lc.spawned_at + 1)..Len(lc.trace) :
       /\ a < b /\ b < c
       /\ lc.trace[a].ev = "write" /\ lc.trace[a].message.method = "initialize"
       /\ lc.trace[b].ev = "read" /\ lc.trace[b].how = "returned"
       /\ lc.trace[b].frame.id = lc.trace[a].message.id
       /\ lc.trace[c].ev = "write"
       /\ lc.trace[c].message = [id |-> None, method |-> "initialized"]

\* C40: whenever no operation of the client is in progress and initialized
\* is true, the client holds a process, and that process has been through
\* the handshake, whatever starts and requests came before, a start that was
\* repeated or that failed among them.
C40_InitializedMeansHandshake ==
    lc.fn = "client" /\ lc.pc = "idle" /\ lc.initialized =>
       lc.process /\ HandshakeOfProcess

----------------------------------------------------------------------------
(* Properties of the symbol path *)

\* The position is in the range, the start of the range included and its
\* end excluded.
InHalfOpen(range, pos) ==
    /\ \/ range.start.line < pos.line
       \/ range.start.line = pos.line /\ range.start.character <= pos.character
    /\ \/ pos.line < range.end.line
       \/ pos.line = range.end.line /\ pos.character < range.end.character

\* The paths of the symbols of the response, each from its outermost
\* enclosing symbol down to itself, with the selection range of the symbol.
SymbolPaths ==
    LET top == {i \in 1..Len(ds.symbols) : TRUE}
        seg(s) == [name |-> s.name, kind |-> s.kind]
    IN  {[path |-> <<seg(ds.symbols[i])>>, at |-> ds.symbols[i].selection_range] : i \in top}
        \cup {[path |-> <<seg(ds.symbols[i]), seg(ds.symbols[i].children.v[1])>>,
               at |-> ds.symbols[i].children.v[1].selection_range] :
                 i \in {j \in top : ds.symbols[j].children.some}}

\* The symbols whose selection range has the position of the call.
Holding == {s \in SymbolPaths : InHalfOpen(s.at, ds.position)}

\* C27: for a hierarchical documentSymbol response and a position the client
\* returns the path from the outermost enclosing symbol down to the
\* innermost symbol whose selection_range, start included and end excluded,
\* has the position: when one symbol has it, nested or not, the path of
\* that symbol, and no path when no symbol has it.
C27_InnermostSymbolPath ==
    ds.fn = "symbol_path" /\ ds.done =>
       /\ Holding = {} => ds.path = None
       /\ \A s \in Holding : Holding = {s} => ds.path = Some(s.path)

----------------------------------------------------------------------------
(* Properties of the calls that share the client *)

\* The call p has written a request to the language server and has neither
\* read its response nor failed.
Outstanding(p) == pc[p] \in {"rd_line", "rd_check", "rd_body"}

\* C28: at most one request to the language server is outstanding at any
\* time, however the tool calls interleave: a call writes its request and
\* waits for the response only while it holds the mutex of the client.
C28_OneRequestOutstanding ==
    /\ Cardinality({p \in Procs : Outstanding(p)}) <= 1
    /\ \A p \in Procs : pc[p] = "lsp_write" \/ Outstanding(p) => anaLock = p

\* The request of a find_references call is outstanding while an inspection
\* that holds the workspace lock waits for the client.
C28_Witness ==
    \E p, q \in Procs :
       /\ p # q
       /\ Outstanding(p) /\ ctx[p].tool = "find_references"
       /\ pc[q] = "lock_analyzer" /\ wsLock = q

\* The call that holds the lock the call p waits for; 0 when p waits for no
\* lock, or for one that is free.
WaitsFor(p) ==
    IF pc[p] = "lock_ws" THEN wsLock
    ELSE IF pc[p] = "lock_analyzer" THEN anaLock
    ELSE 0

\* C38: no calls deadlock on the workspace lock and the mutex of the client.
\* A call that asks for the workspace lock does not hold the mutex of the
\* client; an inspection asks for and holds the mutex of the client only
\* while it holds the workspace lock; a tool that is no inspection never
\* holds the workspace lock; and there is no set of calls each of which
\* waits for a lock that a call of the set holds.
C38_NoLockCycle ==
    /\ \A p \in Procs : pc[p] = "lock_ws" => anaLock # p
    /\ \A p \in Procs :
          (pc[p] = "lock_analyzer" \/ anaLock = p) /\ ctx[p].tool # "find_references"
             => wsLock = p
    /\ \A p \in Procs : ctx[p].tool = "find_references" => wsLock # p
    /\ \A S \in SUBSET Procs : S # {} => \E p \in S : WaitsFor(p) \notin S

\* An inspection that holds the workspace lock waits for the mutex of the
\* client, which a find_references call holds while it writes its request:
\* that call waits for no lock.
C38_Witness ==
    \E p, q \in Procs :
       /\ p # q
       /\ pc[p] = "lock_analyzer" /\ wsLock = p /\ WaitsFor(p) = q
       /\ ctx[q].tool = "find_references" /\ pc[q] = "lsp_write" /\ WaitsFor(q) = 0

----------------------------------------------------------------------------
(* Properties of the pipes of a compiler run *)

\* Both reader tasks of the call p have read their pipe to end-of-stream.
BothDrained(p) == child[p].stdout_task = "done" /\ child[p].stderr_task = "done"

\* C29 as stated: in CompilerRunner::run the stdout and the stderr of the
\* child have both been read to end-of-stream before the runner observes the
\* exit status of the child.
C29_DrainedBeforeStatus ==
    \A p \in Procs : run[p].status # "none" => BothDrained(p)

\* The runner of the call p has the exit status and both outputs: run is
\* past the two joins.
HasRunResult(p) == run[p].status # "none" /\ pc[p] \notin {"join_out", "join_err"}

\* C29, amended: the runner observes the exit status first, from
\* child.wait(), and the stdout and the stderr of the child have both been
\* read to end-of-stream before run goes on to build the RunResult that
\* carries the status; stdout is complete before stderr is joined.
C29_DrainedBeforeResult ==
    \A p \in Procs :
       /\ HasRunResult(p) =>
             /\ BothDrained(p)
             /\ run[p].stdout = child[p].written.stdout
             /\ run[p].stderr = child[p].written.stderr
       /\ pc[p] = "join_err" => child[p].stdout_task = "done"

\* The run of a compiler that wrote to both pipes is past its joins and has
\* both outputs.
C29_Witness ==
    \E p \in Procs :
       /\ HasRunResult(p)
       /\ pc[p] = "scan_after"
       /\ run[p].stdout = "fn demo() {}"
       /\ run[p].stderr = "warning: unused"

\* What the child writes to a pipe, in the order of its writes.
WrittenTo(name) ==
    SelectSeq([i \in 1..Len(pp.script) |-> i], LAMBDA i : pp.script[i] = name)

\* C30: a child that writes more to stdout and stderr than the pipes hold, in
\* any order, is not left blocked on a full pipe: a blocked write is accepted
\* in the end (or the timeout kills the child), the child does not run
\* forever, run comes to its end, and the RunResult it returns has all of the
\* stdout and all of the stderr of the child.
C30_NoPipeDeadlock ==
    /\ [](Blocked(pp) => <>(~Blocked(pp)))
    /\ <>(pp.st # "running")
    /\ <>(pp.pc \in {"returned", "timed_out"})
    /\ [](pp.pc = "returned" =>
             /\ pp.result.stdout = WrittenTo("stdout")
             /\ pp.result.stderr = WrittenTo("stderr"))

\* run has returned the outputs of a child that wrote more than a pipe
\* holds to stdout, with a write to stderr among those writes.
C30_Witness ==
    /\ pp.fn = "run" /\ pp.pc = "returned"
    /\ Len(pp.result.stdout) > PipeCapacity
    /\ Len(pp.result.stderr) > 0
    /\ pp.script[1] = "stdout" /\ pp.script[Len(pp.script)] = "stdout"

\* C37: the child of a run has CARGO_TARGET_DIR set to the target directory
\* of the runner, whatever the env of the request holds, a CARGO_TARGET_DIR
\* of its own included; the other variables of the request are set as given.
C37_TargetDirPinned ==
    cm.fn = "run" /\ cm.done =>
       /\ "CARGO_TARGET_DIR" \in DOMAIN cm.envs
       /\ cm.envs["CARGO_TARGET_DIR"] = target_dir_value
       /\ \A k \in DOMAIN cm.request.env \ {"CARGO_TARGET_DIR"} :
             k \in DOMAIN cm.envs /\ cm.envs[k] = cm.request.env[k]

\* The env of the request named another build tree as CARGO_TARGET_DIR, and
\* RUSTFLAGS: the child has the target directory of the runner, and the
\* RUSTFLAGS of the request.
C37_Witness ==
    /\ cm.fn = "run" /\ cm.done
    /\ DOMAIN cm.request.env = {"CARGO_TARGET_DIR", "RUSTFLAGS"}
    /\ cm.request.env["CARGO_TARGET_DIR"] = "/home/dev/target"
    /\ cm.request.env["CARGO_TARGET_DIR"] # target_dir_value
    /\ cm.envs["CARGO_TARGET_DIR"] = target_dir_value
    /\ cm.envs["RUSTFLAGS"] = cm.request.env["RUSTFLAGS"]

----------------------------------------------------------------------------
(* Properties of the steps of an inspection *)

\* The call p is in the resolution of its symbol.
Resolving(p) ==
    pc[p] \in {"resolve", "lock_analyzer", "lsp_write", "rd_line", "rd_check", "rd_body",
               "resolved"}

\* C31: within one mir, llvm-ir or asm inspection the steps come one after
\* the other: the resolution of the symbol by the language server, the spawn
\* of the compiler, the observation of its exit, the reads of the artifacts
\* and the extraction, and last the truncation that makes the text of the
\* result.
C31_StepsInOrder ==
    \A p \in Procs :
       ctx[p].view.name \in CompilingViews =>
          /\ Resolving(p) =>
                /\ did[p] \cap {"rustc", "artifacts", "extract"} = {}
                /\ child[p].st = "none"
          /\ "rustc" \in did[p] => "lsp" \in did[p] /\ ~Resolving(p) /\ anaLock # p
          /\ run[p].status = "none" => did[p] \cap {"artifacts", "extract"} = {}
          /\ did[p] \cap {"artifacts", "extract"} # {} =>
                /\ run[p].status = "success"
                /\ child[p].st = "reaped"
                /\ BothDrained(p)
          /\ res[p].kind = "ok" /\ res[p].provenance.workspace_locked =>
                /\ pc[p] = "ret"
                /\ "extract" \in did[p]
          /\ pc[p] # "ret" => res[p] = NoRes

\* An assembly inspection has gone through all of its steps and returned a
\* truncated text.
C31_Witness ==
    \E p \in Procs :
       /\ pc[p] = "ret" /\ res[p].kind = "ok" /\ res[p].truncated
       /\ ctx[p].view.name = "asm"
       /\ {"lsp", "rustc", "artifacts", "extract"} \subseteq did[p]

\* The language server has resolved the position of the call p to a symbol
\* that is neither a free function nor a method.
ResolvedNonFunction(p) ==
    ctx[p].resolved \notin {"unresolved", "none", "Function"}

\* C32: for the views mir, llvm-ir and asm, when the symbol resolved at the
\* position is not a free function or a method the inspection fails with
\* INVALID_PARAMS and no compiler process is spawned, whether or not a
\* symbol_name was given.
C32_NonFunctionRefused ==
    \A p \in Procs :
       ctx[p].view.name \in CompilingViews /\ ResolvedNonFunction(p) =>
          /\ pc[p] = "ret"
          /\ res[p] = mcp_error("INVALID_PARAMS", "non_function", [kind |-> ctx[p].resolved])
          /\ "rustc" \notin did[p]
          /\ child[p] = NoChild

\* An llvm-ir inspection with a symbol_name, at the position of a type, has
\* been refused.
C32_Witness ==
    \E p \in Procs :
       /\ ctx[p].view.name = "llvm-ir" /\ ctx[p].resolved = "Type"
       /\ ctx[p].symbol_name = Some("renamed")
       /\ pc[p] = "ret" /\ res[p].code = "INVALID_PARAMS"

----------------------------------------------------------------------------
(* Properties of the symbol of a position-based inspection *)

\* The crate and the modules the language server resolved, then the name.
SegmentsWith(name) == <<ex.identity.crate_name>> \o ex.identity.module_path \o <<name>>

\* The path of the segments, "::" between them.
RECURSIVE PathString(_)
PathString(segments) ==
    IF Len(segments) = 1 THEN segments[1]
    ELSE segments[1] \o "::" \o PathString(Tail(segments))

\* The segments one after the other, each after its length.
RECURSIVE LengthPrefixedString(_)
LengthPrefixedString(segments) ==
    IF segments = <<>> THEN ""
    ELSE ToString(Len(segments[1])) \o segments[1] \o LengthPrefixedString(Tail(segments))

\* C34: when a position-based mir, llvm-ir or asm inspection gives a
\* symbol_name, the NormalizedSymbol used for the extraction is built from
\* the identity with that name as its item name: item_name, the last segment
\* of def_name and the last segment encoded in mangled_prefix are the given
\* name, and the crate and module segments are those the language server
\* resolved.
C34_OverrideRebuildsSymbol ==
    ex.fn = "resolve_normalized_symbol" /\ ex.done /\ ex.symbol_name.some =>
       LET name == ex.symbol_name.v
       IN  /\ Str(ex.symbol.item_name) = name
           /\ Str(ex.symbol.def_name) = PathString(SegmentsWith(name))
           /\ Str(ex.symbol.mangled_prefix) = "_ZN" \o LengthPrefixedString(SegmentsWith(name))
           /\ ex.symbol.mangled = None
           /\ ex.symbol.target = ex.target

\* The symbol of a function in demo::utils::inner was built with the name
\* the caller gave in place of the resolved one.
C34_Witness ==
    /\ ex.fn = "resolve_normalized_symbol" /\ ex.done
    /\ ex.identity.item_name = "a_much_longer_name"
    /\ ex.symbol_name = Some("renamed")
    /\ Str(ex.symbol.def_name) = "demo::utils::inner::renamed"
    /\ Str(ex.symbol.mangled_prefix) = "_ZN4demo5utils5inner7renamed"

====
